---- MODULE Spec2Model ----
(***************************************************************************)
(* Model of the work-plan merger (work-plan-merger/scripts/merge_plans.py):*)
(* PlanMerger parses a master document into heading sections, matches each *)
(* subplan to its best section and weaves the subplan text into the master.*)
(*                                                                         *)
(* Texts are sequences of characters; a character is a one-element string  *)
(* ("#", " ", "a", NL) or the name of a code point ("U1F4CB").  Floats are  *)
(* exact rationals <<numerator, denominator>>.                             *)
(***************************************************************************)
EXTENDS Integers, Sequences, FiniteSets, TLC

VARIABLES
    entry,             \* which function was called: "merge_plans" or "generate"
    pc,                \* position in the called function
    master_content,    \* text of the master file
    dir_files,         \* the *.md files of subplans_dir, in glob order
    master_structure,  \* list of heading sections of the master
    subplans,          \* loaded subplans
    k,                 \* index of the subplan the matching loop is at
    matches,           \* the match list
    lines,             \* master_content.split('\n') in _generate_merged_document
    matches_by_line,   \* the matches sorted by descending heading line number
    processed_indices, \* section indices that already received a block
    i,                 \* index (0-based) of the master line the merge loop is at
    result_lines,      \* the list the merged text is joined from
    origin,            \* history: for each element of result_lines, what emitted it
    merged_content,    \* the merged text
    output_file,       \* <<>> while the output file is not written, else <<its text>>
    report,            \* <<>> until merge_plans returns, then <<the report>>
    env,               \* the files the run meets and the options main is given
    raised,            \* "none", or the step whose exception is in flight
    exit_code,         \* <<>> until main returns, then <<its return value>>
    report_file,       \* <<>> while the --report file is not written, else <<its data>>
    args,              \* the arguments of a direct call of one method
    ret                \* the values the runs of a direct call returned, in order

vars == <<entry, pc, master_content, dir_files, master_structure, subplans, k,
          matches, lines, matches_by_line, processed_indices, i, result_lines,
          origin, merged_content, output_file, report, env, raised, exit_code,
          report_file, args, ret>>

\* ------------------------------------------------------------------ bounds

MaxLines == 3
MaxSubplans == 2

\* --------------------------------------------------------------- constants

MaxHeadingLevel == 6
MaxTargetLevel == 3
KeywordTextCap == 200
KeywordLimit == 10
TextCap == 500
KeywordsWeightNum == 1
KeywordsWeightDen == 2
MinSimilarityNum == 1
MinSimilarityDen == 10
HighNum == 1
HighDen == 2
ModerateNum == 3
ModerateDen == 10

NL == "\n"

\* _is_in_code_block: range(max(0, index - 50), index) and range(i + 1, i + 100)
LookBack == 50
LookAhead == 100

\* _is_title_line: the defaults of max_length and min_length, and the length
\* below which a line after a blank line is a title
TitleMaxLength == 50
TitleMinLength == 2
StandaloneTitleLength == 30

\* -------------------------------------------------------------- text tools

Min(a, b) == IF a <= b THEN a ELSE b

\* s[:n]
Take(s, n) == SubSeq(s, 1, Min(n, Len(s)))

\* s[n:] with n 0-based
Drop(s, n) == SubSeq(s, n + 1, Len(s))

\* the characters \s of a regular expression and str.strip() remove
IsSpace(c) == c \in {" ", NL, "\t"}

RECURSIVE LStrip(_)
LStrip(s) == IF s # <<>> /\ IsSpace(Head(s)) THEN LStrip(Tail(s)) ELSE s

RECURSIVE RStrip(_)
RStrip(s) ==
    IF s # <<>> /\ IsSpace(s[Len(s)]) THEN RStrip(SubSeq(s, 1, Len(s) - 1)) ELSE s

\* str.strip()
Strip(s) == RStrip(LStrip(s))

\* the position of the first line break of s at or after position p, Len(s) + 1
\* when there is none
LineEnd(s, p) ==
    IF \E q \in p..Len(s) : s[q] = NL
    THEN CHOOSE q \in p..Len(s) : s[q] = NL /\ \A r \in p..(q - 1) : s[r] # NL
    ELSE Len(s) + 1

RECURSIVE SplitFrom(_, _)
\* the lines of s from position p on, one line at a time
SplitFrom(s, p) ==
    IF LineEnd(s, p) > Len(s) THEN <<SubSeq(s, p, Len(s))>>
    ELSE <<SubSeq(s, p, LineEnd(s, p) - 1)>> \o SplitFrom(s, LineEnd(s, p) + 1)

\* s.split('\n')
Split(s) == SplitFrom(s, 1)

RECURSIVE JoinWith(_, _)
JoinWith(sep, ls) ==
    IF ls = <<>> THEN <<>>
    ELSE IF Len(ls) = 1 THEN ls[1]
    ELSE ls[1] \o sep \o JoinWith(sep, Tail(ls))

\* '\n'.join(ls)
Join(ls) == JoinWith(<<NL>>, ls)

\* str.lower() on the alphabet of the model
Lower(c) ==
    CASE c = "A" -> "a"
      [] c = "B" -> "b"
      [] c = "D" -> "d"
      [] c = "X" -> "x"
      [] c = "P" -> "p"
      [] c = "I" -> "i"
      [] OTHER -> c

LowerText(s) == [p \in 1..Len(s) |-> Lower(s[p])]

\* ---------------------------------------------------------------- headings

RECURSIVE HashRun(_, _)
\* number of '#' characters line starts with, counted from position p
HashRun(line, p) ==
    IF p <= Len(line) /\ line[p] = "#" THEN HashRun(line, p + 1) ELSE p - 1

\* heading_pattern ^(#{1,6})\s+(.+)$ on one line: the level, or 0 for no match.
\* The group (.+) needs one character after one whitespace character.
HeadingLevel(line) ==
    LET n == HashRun(line, 1)
    IN  IF n >= 1 /\ n <= MaxHeadingLevel /\ Len(line) >= n + 2 /\ IsSpace(line[n + 1])
        THEN n ELSE 0

IsHeading(line) == HeadingLevel(line) > 0

\* match.group(2).strip()
HeadingTitle(line) == Strip(Drop(line, HeadingLevel(line) + 1))

\* ----------------------------------------------------------------- parser

IsBoundaryStrict(heading_level, current_level) == heading_level < current_level

IsBoundaryReversed(heading_level, current_level) == heading_level >= current_level

\* the test that ends a section: a heading of the same or a shallower level
IsBoundary(heading_level, current_level) == heading_level <= current_level

RECURSIVE CollectFrom(_, _, _)
\* the loop of _extract_section_content from (1-based) line p on
CollectFrom(ls, p, current_level) ==
    IF p > Len(ls) THEN <<>>
    ELSE IF IsHeading(ls[p]) /\ IsBoundary(HeadingLevel(ls[p]), current_level)
         THEN <<>>
         ELSE <<ls[p]>> \o CollectFrom(ls, p + 1, current_level)

ContentLinesFromHeading(content, start_line, current_level) ==
    CollectFrom(Split(content), start_line + 1, current_level)

\* content_lines of _extract_section_content; start_line is 0-based
ContentLines(content, start_line, current_level) ==
    CollectFrom(Split(content), start_line + 2, current_level)

ExtractSectionContentUnstripped(content, start_line, current_level) ==
    Join(ContentLines(content, start_line, current_level))

\* '\n'.join(content_lines).strip()
ExtractSectionContent(content, start_line, current_level) ==
    Strip(Join(ContentLines(content, start_line, current_level)))

\* --------------------------------------------------------------- keywords

Alnum == {"a", "b", "d", "p", "t", "x", "c", "o", "n", "e",
          "A", "B", "D", "P", "X", "1", "2", "3", "4", "5"}
Symbols == {"#", "-"}
HanChars == {"U5B50", "U89C4", "U5212", "U5185", "U5BB9"}

\* the classes jieba.lcut groups characters by: a run of Latin letters and
\* digits, a run of ideographs and a run of symbols are one token each, every
\* other character (white space, pictographs) is a token of its own
CharClass(c) ==
    IF c \in Alnum THEN "alnum"
    ELSE IF c \in HanChars THEN "han"
    ELSE IF c \in Symbols THEN "sym"
    ELSE "single"

\* the last position of the run of one class that starts at position p
RunEnd(s, p) ==
    IF CharClass(s[p]) = "single" THEN p
    ELSE CHOOSE e \in p..Len(s) :
            /\ \A q \in p..e : CharClass(s[q]) = CharClass(s[p])
            /\ e < Len(s) => CharClass(s[e + 1]) # CharClass(s[p])

RECURSIVE TokensFrom(_, _)
\* the tokens of s from position p on, one run at a time
TokensFrom(s, p) ==
    IF p > Len(s) THEN <<>>
    ELSE <<SubSeq(s, p, RunEnd(s, p))>> \o TokensFrom(s, RunEnd(s, p) + 1)

\* jieba.lcut(text)
Tokenize(s) == TokensFrom(s, 1)

StopWords ==
    { <<"U7684">>, <<"U548C">>, <<"U5728">>, <<"U662F">>, <<"U4E3A">>, <<"U4E86">>,
      <<"U4E0E">>, <<"U4E2D">>, <<"U6709">>, <<"U53CA">>, <<"U7B49">>, <<"U6216">>,
      <<"U5C06">>, <<"U4F1A">>, <<"U5BF9">>, <<"U8FDB", "U884C">>,
      <<"U5DE5", "U4F5C">>, <<"U89C4", "U5212">>, <<"U8BA1", "U5212">> }

IsKeyword(word) == Len(word) > 1 /\ word \notin StopWords /\ Strip(word) # <<>>

RECURSIVE Distinct(_, _)
\* the keys of word_freq, in insertion order
Distinct(ws, seen) ==
    IF ws = <<>> THEN <<>>
    ELSE IF Head(ws) \in seen THEN Distinct(Tail(ws), seen)
    ELSE <<Head(ws)>> \o Distinct(Tail(ws), seen \cup {Head(ws)})

Freq(word, ws) == Cardinality({p \in 1..Len(ws) : ws[p] = word})

RECURSIVE SortByFreqLastFirst(_, _)
SortByFreqLastFirst(keys, ws) ==
    IF keys = <<>> THEN <<>>
    ELSE LET top == CHOOSE p \in 1..Len(keys) :
                      /\ \A q \in 1..Len(keys) : Freq(keys[q], ws) <= Freq(keys[p], ws)
                      /\ \A q \in (p + 1)..Len(keys) : Freq(keys[q], ws) < Freq(keys[p], ws)
         IN  <<keys[top]>>
             \o SortByFreqLastFirst(
                    SubSeq(keys, 1, top - 1) \o SubSeq(keys, top + 1, Len(keys)), ws)

RECURSIVE SortByFreq(_, _)
\* sorted(items, key=frequency, reverse=True): stable, so equal frequencies keep
\* their insertion order
SortByFreq(keys, ws) ==
    IF keys = <<>> THEN <<>>
    ELSE LET top == CHOOSE p \in 1..Len(keys) :
                      /\ \A q \in 1..Len(keys) : Freq(keys[q], ws) <= Freq(keys[p], ws)
                      /\ \A q \in 1..(p - 1) : Freq(keys[q], ws) < Freq(keys[p], ws)
         IN  <<keys[top]>>
             \o SortByFreq(SubSeq(keys, 1, top - 1) \o SubSeq(keys, top + 1, Len(keys)), ws)

ExtractKeywords(text) ==
    LET words == Tokenize(LowerText(text))
        keywords == SelectSeq(words, IsKeyword)
    IN  Take(SortByFreq(Distinct(keywords, {}), keywords), KeywordLimit)

\* -------------------------------------------------------------- structure

RECURSIVE AnalyzeFrom(_, _, _)
\* the loop of _analyze_document_structure from (1-based) line p on
AnalyzeFrom(content, ls, p) ==
    IF p > Len(ls) THEN <<>>
    ELSE IF IsHeading(ls[p])
         THEN LET level == HeadingLevel(ls[p])
                  title == HeadingTitle(ls[p])
                  section_content == ExtractSectionContent(content, p - 1, level)
              IN  << [ level |-> level,
                       title |-> title,
                       line_number |-> p,
                       content |-> section_content,
                       keywords |-> ExtractKeywords(
                           title \o <<" ">> \o Take(section_content, KeywordTextCap)) ] >>
                  \o AnalyzeFrom(content, ls, p + 1)
         ELSE AnalyzeFrom(content, ls, p + 1)

AnalyzeDocumentStructure(content) == AnalyzeFrom(content, Split(content), 1)

\* ------------------------------------------------------------- similarity

Range(f) == {f[p] : p \in DOMAIN f}

\* exact rationals <<numerator, denominator>>, denominator > 0
RatGt(x, y) == x[1] * y[2] > y[1] * x[2]
RatGe(x, y) == x[1] * y[2] >= y[1] * x[2]

RECURSIVE RunLen(_, _, _, _, _, _)
\* length of the block a[p..] = b[q..] inside a[..ahi], b[..bhi]
RunLen(a, p, ahi, b, q, bhi) ==
    IF p <= ahi /\ q <= bhi /\ a[p] = b[q]
    THEN 1 + RunLen(a, p + 1, ahi, b, q + 1, bhi) ELSE 0

\* SequenceMatcher.find_longest_match: the longest block, of those the one that
\* starts earliest in a, of those the one that starts earliest in b
LongestMatch(a, alo, ahi, b, blo, bhi) ==
    LET cands == {c \in (alo..ahi) \X (blo..bhi) : a[c[1]] = b[c[2]]}
        Size(c) == RunLen(a, c[1], ahi, b, c[2], bhi)
    IN  IF cands = {} THEN <<alo, blo, 0>>
        ELSE LET best == CHOOSE c \in cands : \A d \in cands :
                            \/ Size(d) < Size(c)
                            \/ /\ Size(d) = Size(c)
                               /\ \/ c[1] < d[1]
                                  \/ c[1] = d[1] /\ c[2] <= d[2]
             IN  <<best[1], best[2], Size(best)>>

RECURSIVE MatchedChars(_, _, _, _, _, _)
\* sum of the sizes of SequenceMatcher.get_matching_blocks
MatchedChars(a, alo, ahi, b, blo, bhi) ==
    IF alo > ahi \/ blo > bhi THEN 0
    ELSE LET m == LongestMatch(a, alo, ahi, b, blo, bhi)
         IN  IF m[3] = 0 THEN 0
             ELSE m[3] + MatchedChars(a, alo, m[1] - 1, b, blo, m[2] - 1)
                       + MatchedChars(a, m[1] + m[3], ahi, b, m[2] + m[3], bhi)

\* SequenceMatcher(None, a, b).ratio() for texts shorter than 200 characters
\* (no character is junk)
Ratio(a, b) ==
    IF Len(a) + Len(b) = 0 THEN <<1, 1>>
    ELSE <<2 * MatchedChars(a, 1, Len(a), b, 1, Len(b)), Len(a) + Len(b)>>

KeywordSimilarityOfFirst(A, B) ==
    IF A = {} \/ B = {} THEN <<0, 1>>
    ELSE <<Cardinality(A \cap B), Cardinality(A)>>

\* len(intersection) / len(union), 0 when one of the sets is empty
KeywordSimilarity(A, B) ==
    IF A = {} \/ B = {} THEN <<0, 1>>
    ELSE <<Cardinality(A \cap B), Cardinality(A \cup B)>>

SectionTextUncapped(section) == section.title \o <<" ">> \o section.content

\* section['title'] + ' ' + section['content'][:500]
SectionText(section) == section.title \o <<" ">> \o Take(section.content, TextCap)

\* subplan['content'][:500]
SubplanText(subplan) == Take(subplan.content, TextCap)

TextSimilarity(subplan, section) ==
    Ratio(SubplanText(subplan), SectionText(section))

CalculateSimilarityUnweighted(subplan, section) ==
    LET kw == KeywordSimilarity(Range(subplan.keywords), Range(section.keywords))
        tx == TextSimilarity(subplan, section)
    IN  <<kw[1] * tx[2] + tx[1] * kw[2], kw[2] * tx[2]>>

\* keyword_similarity * W + text_similarity * (1 - W)
CalculateSimilarity(subplan, section) ==
    LET kw == KeywordSimilarity(Range(subplan.keywords), Range(section.keywords))
        tx == TextSimilarity(subplan, section)
    IN  << kw[1] * KeywordsWeightNum * tx[2]
             + tx[1] * (KeywordsWeightDen - KeywordsWeightNum) * kw[2],
           kw[2] * tx[2] * KeywordsWeightDen >>

\* ---------------------------------------------------------------- matcher

None == [none |-> TRUE]

IsEligibleAny(section) == TRUE

\* sections of level 1 to 3 are the merge targets
IsEligible(section) == section.level <= MaxTargetLevel

IsBetterOrEqual(similarity, max_similarity) == RatGe(similarity, max_similarity)

\* the running maximum is replaced on a strictly greater similarity only
IsBetter(similarity, max_similarity) == RatGt(similarity, max_similarity)

RECURSIVE BestFrom(_, _, _, _, _)
\* the loop of _find_best_section_match from (1-based) section p on
BestFrom(subplan, structure, p, best, max_similarity) ==
    IF p > Len(structure) THEN best
    ELSE IF ~IsEligible(structure[p])
         THEN BestFrom(subplan, structure, p + 1, best, max_similarity)
         ELSE LET similarity == CalculateSimilarity(subplan, structure[p])
              IN  IF IsBetter(similarity, max_similarity)
                  THEN BestFrom(subplan, structure, p + 1,
                                [ section_index |-> p - 1,
                                  section_title |-> structure[p].title,
                                  similarity |-> similarity ],
                                similarity)
                  ELSE BestFrom(subplan, structure, p + 1, best, max_similarity)

\* _find_best_section_match without the reason: None, or the best section
FindBestSectionMatch(subplan, structure) ==
    BestFrom(subplan, structure, 1, None, <<0, 1>>)

Bucket(similarity) ==
    IF RatGt(similarity, <<HighNum, HighDen>>) THEN "high"
    ELSE IF RatGt(similarity, <<ModerateNum, ModerateDen>>) THEN "moderate"
    ELSE "partial"

CommonKeywords(subplan, section) == Range(subplan.keywords) \cap Range(section.keywords)

\* the orders list(common_keywords) can have: a set of strings has no fixed order
Orderings(S) ==
    {o \in [1..Cardinality(S) -> S] : \A p, q \in DOMAIN o : p # q => o[p] # o[q]}

\* _generate_match_reason, for one order of the set of common keywords
GenerateMatchReason(order, similarity) ==
    [common |-> Take(order, 3), bucket |-> Bucket(similarity)]

PassesWithoutThreshold(best_match) == best_match # None

PassesThresholdStrict(best_match) ==
    best_match # None
    /\ RatGt(best_match.similarity, <<MinSimilarityNum, MinSimilarityDen>>)

\* best_match and best_match['similarity'] >= min_similarity
PassesThreshold(best_match) ==
    best_match # None
    /\ RatGe(best_match.similarity, <<MinSimilarityNum, MinSimilarityDen>>)

\* ----------------------------------------------------------------- merger

\* matching_rules['content_separators']['main']
Separator ==
    <<NL, "-", "-", "-", " ", "U5B50", "U89C4", "U5212", "U5185", "U5BB9", " ",
      "-", "-", "-", NL>>

\* "### " and the clipboard pictograph in front of the subplan's name
LabelPrefix == <<"#", "#", "#", " ", "U1F4CB", " ">>

Indent == <<" ", " ">>

LineKey(m, structure) == structure[m.section_index + 1].line_number

RECURSIVE SortByLineDescReversed(_, _)
SortByLineDescReversed(ms, structure) ==
    IF ms = <<>> THEN <<>>
    ELSE LET top == CHOOSE p \in 1..Len(ms) :
                      /\ \A q \in 1..Len(ms) :
                            LineKey(ms[q], structure) <= LineKey(ms[p], structure)
                      /\ \A q \in (p + 1)..Len(ms) :
                            LineKey(ms[q], structure) < LineKey(ms[p], structure)
         IN  <<ms[top]>>
             \o SortByLineDescReversed(
                    SubSeq(ms, 1, top - 1) \o SubSeq(ms, top + 1, Len(ms)), structure)

RECURSIVE SortByLineDesc(_, _)
\* sorted(matches, key=line_number, reverse=True): stable, so matches of one
\* section keep the order of the match list
SortByLineDesc(ms, structure) ==
    IF ms = <<>> THEN <<>>
    ELSE LET top == CHOOSE p \in 1..Len(ms) :
                      /\ \A q \in 1..Len(ms) :
                            LineKey(ms[q], structure) <= LineKey(ms[p], structure)
                      /\ \A q \in 1..(p - 1) :
                            LineKey(ms[q], structure) < LineKey(ms[p], structure)
         IN  <<ms[top]>>
             \o SortByLineDesc(SubSeq(ms, 1, top - 1) \o SubSeq(ms, top + 1, Len(ms)),
                               structure)

\* subplan_dict[name]: of several subplans of one name the last one
SubplanByName(sps, name) ==
    sps[CHOOSE p \in 1..Len(sps) :
          sps[p].name = name /\ \A q \in (p + 1)..Len(sps) : sps[q].name # name]

IsInsertionLineOrEarlier(idx, section) == idx <= section.line_number

\* i == section['line_number'], i the 0-based index of the line just emitted
IsInsertionLine(idx, section) == idx = section.line_number

InsertionsAtNoBreak(idx, mbl, structure, processed) ==
    LET Hit(m) == IsInsertionLine(idx, structure[m.section_index + 1])
    IN  SelectSeq(mbl, Hit)

\* the inner loop of _generate_merged_document at line idx: the first match, in
\* matches_by_line, of a section that is due at this line and not yet claimed
InsertionsAt(idx, mbl, structure, processed) ==
    LET Hit(m) == /\ IsInsertionLine(idx, structure[m.section_index + 1])
                  /\ m.section_index \notin processed
    IN  Take(SelectSeq(mbl, Hit), 1)

NonBlank(subline) == Strip(subline) # <<>>

UnindentedLines(content) == SelectSeq(Split(content), NonBlank)

\* the subplan's lines that are not blank, each behind two spaces
IndentedLines(content) ==
    LET kept == SelectSeq(Split(content), NonBlank)
    IN  [p \in 1..Len(kept) |-> Indent \o kept[p]]

\* what one insertion appends to result_lines
BlockLines(subplan) ==
    <<Separator, LabelPrefix \o subplan.name, <<>>>>
    \o IndentedLines(subplan.content) \o << <<>> >>

BlockOrigin(idx, m, subplan) ==
    LET Tag(part) == [src |-> "block", line |-> idx, section |-> m.section_index,
                      subplan |-> m.subplan, part |-> part]
        n == Len(IndentedLines(subplan.content))
    IN  <<Tag("separator"), Tag("label"), Tag("blank")>>
        \o [p \in 1..n |-> Tag("content")] \o <<Tag("end")>>

RECURSIVE BlocksOf(_, _)
BlocksOf(ins, sps) ==
    IF ins = <<>> THEN <<>>
    ELSE BlockLines(SubplanByName(sps, Head(ins).subplan)) \o BlocksOf(Tail(ins), sps)

RECURSIVE BlockOriginsOf(_, _, _)
BlockOriginsOf(idx, ins, sps) ==
    IF ins = <<>> THEN <<>>
    ELSE BlockOrigin(idx, Head(ins), SubplanByName(sps, Head(ins).subplan))
         \o BlockOriginsOf(idx, Tail(ins), sps)

MasterLineOutSkipBlank(line) == IF Strip(line) = <<>> THEN <<>> ELSE <<line>>

\* result_lines.append(line)
MasterLineOut(line) == <<line>>

MasterOrigin(idx, line) ==
    [p \in 1..Len(MasterLineOut(line)) |->
        [src |-> "master", line |-> idx, section |-> -1, subplan |-> <<>>, part |-> "line"]]

\* ----------------------------------------------------------------- loading

StartsWith(s, prefix) == Len(s) >= Len(prefix) /\ SubSeq(s, 1, Len(prefix)) = prefix

ReservedPrefixes == { <<"U603B", "U7EB2">>, <<"m", "a", "s", "t", "e", "r">> }

IsReserved(stem) == \E prefix \in ReservedPrefixes : StartsWith(stem, prefix)

FilePath(stem) == stem \o <<".", "m", "d">>

RECURSIVE LoadSubplans(_)
\* _load_subplans over the files of the directory, in glob order
LoadSubplans(files) ==
    IF files = <<>> THEN <<>>
    ELSE IF IsReserved(Head(files).stem) THEN LoadSubplans(Tail(files))
    ELSE << [ name |-> Head(files).stem,
              file_path |-> FilePath(Head(files).stem),
              content |-> Head(files).content,
              structure |-> AnalyzeDocumentStructure(Head(files).content),
              keywords |-> ExtractKeywords(Head(files).content) ] >>
         \o LoadSubplans(Tail(files))

\* ------------------------------------------------------------------ inputs

LinePool ==
    { <<"#", " ", "a", "b">>,
      <<"#", "#", " ", "B">>,
      <<"#", "#", "#", "#", " ", "D">>,
      <<"x">>,
      <<>> }

\* "# A\ncontentA\n# B\ncontentB"
ScenarioMaster ==
    Join(<< <<"#", " ", "A">>, <<"c", "o", "n", "t", "e", "n", "t", "A">>,
            <<"#", " ", "B">>, <<"c", "o", "n", "t", "e", "n", "t", "B">> >>)

Masters ==
    {Join(ls) : ls \in UNION {[1..n -> LinePool] : n \in 0..MaxLines}}
    \cup {ScenarioMaster}

\* "x1\n\nx2"
SpacedContent == <<"x", "1", NL, NL, "x", "2">>

\* "x1\nx2"
ScenarioContent == <<"x", "1", NL, "x", "2">>

ContentPool == { <<"a", "b">>, SpacedContent, <<"t">> }

Digits == <<"1", "2", "3", "4", "5">>

StemOf(p) == <<"P", Digits[p]>>

ReservedStem == <<"m", "a", "s", "t", "e", "r">>

\* the stems a file at position p of the listing can have
StemsAt(p) == IF p = 1 THEN {StemOf(p), ReservedStem} ELSE {StemOf(p)}

Dirs ==
    UNION { { [p \in 1..n |-> [stem |-> st[p], content |-> c[p]]] :
                st \in {f \in [1..n -> UNION {StemsAt(p) : p \in 1..n}] :
                          \A p \in 1..n : f[p] \in StemsAt(p)},
                c \in [1..n -> ContentPool] } :
            n \in 0..MaxSubplans }

\* the subplan lists _generate_merged_document is called with directly
GivenSubplans ==
    { LoadSubplans([p \in 1..n |-> [stem |-> StemOf(p), content |-> SpacedContent]]) :
        n \in 0..MaxSubplans }

GivenMatch(name, idx, structure) ==
    [ subplan |-> name,
      section_index |-> idx,
      section_title |-> structure[idx + 1].title,
      similarity |-> <<1, 1>>,
      match_reason |-> [common |-> <<>>, bucket |-> "high"] ]

\* the match lists of a direct call: each subplan at most once, any section
GivenMatches(sps, structure) ==
    UNION { { [p \in 1..n |-> GivenMatch(sps[who[p]].name, idx[p], structure)] :
                who \in {f \in [1..n -> 1..Len(sps)] :
                           \A p, q \in 1..n : p # q => f[p] # f[q]},
                idx \in [1..n -> 0..(Len(structure) - 1)] } :
            n \in 0..Len(sps) }

Scenario2Subplans == LoadSubplans(<< [stem |-> <<"X">>, content |-> ScenarioContent] >>)

\* ------------------------------------------------------------ specification

Idle ==
    /\ master_structure = <<>> /\ subplans = <<>> /\ k = 1 /\ matches = <<>>

\* every file is there, readable and writable, and no --report is asked for
NoFaults ==
    [ report |-> FALSE, master |-> "ok", dir |-> "ok", undecodable |-> {},
      output |-> "ok", report_path |-> "ok" ]

\* nothing was raised, main is not involved
NoMain == raised = "none" /\ exit_code = <<>> /\ report_file = <<>>

\* no method is called directly
NoCall == args = <<>> /\ ret = <<>>

MergeIdle ==
    /\ lines = <<>> /\ matches_by_line = <<>> /\ processed_indices = {}
    /\ i = 0 /\ result_lines = <<>> /\ origin = <<>> /\ merged_content = <<>>
    /\ output_file = <<>> /\ report = <<>>

\* a call of merge_plans(master_file, subplans_dir, output_file)
InitMergePlans ==
    /\ entry = "merge_plans"
    /\ pc = "analyze"
    /\ master_content \in Masters
    /\ dir_files \in Dirs
    /\ Idle
    /\ MergeIdle
    /\ env = NoFaults
    /\ NoMain
    /\ NoCall

\* a direct call of _generate_merged_document(master_content, master_structure,
\* matches, subplans)
InitGenerate ==
    /\ entry = "generate"
    /\ pc = "generate"
    /\ master_content \in Masters
    /\ dir_files = <<>>
    /\ master_structure = AnalyzeDocumentStructure(master_content)
    /\ subplans \in GivenSubplans
    /\ k = 1
    /\ matches \in GivenMatches(subplans, master_structure)
    /\ MergeIdle
    /\ env = NoFaults
    /\ NoMain
    /\ NoCall

\* Scenario 2: subplan X, content "x1\nx2", matched to "# A"
InitScenario2 ==
    /\ entry = "generate"
    /\ pc = "generate"
    /\ master_content = ScenarioMaster
    /\ dir_files = <<>>
    /\ master_structure = AnalyzeDocumentStructure(master_content)
    /\ subplans = Scenario2Subplans
    /\ k = 1
    /\ matches = <<GivenMatch(<<"X">>, 0, master_structure)>>
    /\ MergeIdle
    /\ env = NoFaults
    /\ NoMain
    /\ NoCall

Init == InitMergePlans \/ InitGenerate \/ InitScenario2

mergeVars == <<lines, matches_by_line, processed_indices, i, result_lines, origin,
               merged_content>>

mainVars == <<env, raised, exit_code, report_file>>

callVars == <<args, ret>>

\* master_structure = self._analyze_document_structure(master_content)
AnalyzeMaster ==
    /\ pc = "analyze"
    /\ master_structure' = AnalyzeDocumentStructure(master_content)
    /\ pc' = "load"
    /\ UNCHANGED <<callVars, mainVars, entry, master_content, dir_files, subplans, k, matches, mergeVars,
                   output_file, report>>

\* a file _load_subplans opens (one without a reserved name) does not decode
LoadRaises(files, undecodable) ==
    \E p \in 1..Len(files) : p \in undecodable /\ ~IsReserved(files[p].stem)

\* subplans = self._load_subplans(subplans_dir); a directory that does not exist
\* lists no file
LoadDir ==
    /\ pc = "load"
    /\ IF LoadRaises(dir_files, env.undecodable)
       THEN /\ raised' = "load_subplans"
            /\ pc' = "raised"
            /\ UNCHANGED <<subplans, k>>
       ELSE /\ subplans' = LoadSubplans(dir_files)
            /\ k' = 1
            /\ pc' = "match"
            /\ UNCHANGED raised
    /\ UNCHANGED <<callVars, env, exit_code, report_file, entry, master_content,
                   dir_files, master_structure, matches, mergeVars, output_file, report>>

AddMatchFront(ms, m) == <<m>> \o ms

\* matches.append(...)
AddMatch(ms, m) == Append(ms, m)

\* one iteration of the loop of _match_subplans_to_sections
MatchSubplan ==
    /\ pc = "match"
    /\ k <= Len(subplans)
    /\ LET subplan == subplans[k]
           best_match == FindBestSectionMatch(subplan, master_structure)
       IN  IF PassesThreshold(best_match)
           THEN \E order \in Orderings(CommonKeywords(
                                subplan, master_structure[best_match.section_index + 1])) :
                    matches' = AddMatch(matches,
                        [ subplan |-> subplan.name,
                          section_index |-> best_match.section_index,
                          section_title |-> best_match.section_title,
                          similarity |-> best_match.similarity,
                          match_reason |->
                              GenerateMatchReason(order, best_match.similarity) ])
           ELSE matches' = matches
    /\ k' = k + 1
    /\ UNCHANGED <<callVars, mainVars, entry, pc, master_content, dir_files, master_structure, subplans,
                   mergeVars, output_file, report>>

\* the loop of _match_subplans_to_sections is over: return matches
MatchDone ==
    /\ pc = "match"
    /\ k > Len(subplans)
    /\ pc' = "generate"
    /\ UNCHANGED <<callVars, mainVars, entry, master_content, dir_files, master_structure, subplans, k,
                   matches, mergeVars, output_file, report>>

GenerateBeginKeepClaimed ==
    /\ pc = "generate"
    /\ lines' = Split(master_content)
    /\ result_lines' = <<>>
    /\ origin' = <<>>
    /\ matches_by_line' = SortByLineDesc(matches, master_structure)
    /\ processed_indices' = processed_indices
    /\ i' = 0
    /\ pc' = "merge_loop"
    /\ UNCHANGED <<callVars, mainVars, entry, master_content, dir_files,
                   master_structure, subplans, k, matches, merged_content, output_file,
                   report>>

\* _generate_merged_document up to its loop
GenerateBegin ==
    /\ pc = "generate"
    /\ lines' = Split(master_content)
    /\ result_lines' = <<>>
    /\ origin' = <<>>
    /\ matches_by_line' = SortByLineDesc(matches, master_structure)
    /\ processed_indices' = {}
    /\ i' = 0
    /\ pc' = "merge_loop"
    /\ UNCHANGED <<callVars, mainVars, entry, master_content, dir_files, master_structure, subplans, k,
                   matches, merged_content, output_file, report>>

\* one iteration of the loop over the master's lines
MergeLine ==
    /\ pc = "merge_loop"
    /\ i < Len(lines)
    /\ LET line == lines[i + 1]
           ins == InsertionsAt(i, matches_by_line, master_structure, processed_indices)
       IN  /\ result_lines' = result_lines \o MasterLineOut(line) \o BlocksOf(ins, subplans)
           /\ origin' = origin \o MasterOrigin(i, line) \o BlockOriginsOf(i, ins, subplans)
           /\ processed_indices' =
                  processed_indices \cup {ins[p].section_index : p \in 1..Len(ins)}
    /\ i' = i + 1
    /\ UNCHANGED <<callVars, mainVars, entry, pc, master_content, dir_files, master_structure, subplans, k,
                   matches, lines, matches_by_line, merged_content, output_file, report>>

\* return '\n'.join(result_lines)
GenerateEnd ==
    /\ pc = "merge_loop"
    /\ i >= Len(lines)
    /\ merged_content' = Join(result_lines)
    /\ pc' = IF entry = "generate" THEN "done" ELSE "write"
    /\ UNCHANGED <<callVars, mainVars, entry, master_content, dir_files, master_structure, subplans, k,
                   matches, lines, matches_by_line, processed_indices, i, result_lines,
                   origin, output_file, report>>

\* with open(output_file, 'w') as f: f.write(merged_content); open raises when
\* the path cannot be written
WriteOutput ==
    /\ pc = "write"
    /\ IF env.output = "ok"
       THEN /\ output_file' = <<merged_content>>
            /\ pc' = "report"
            /\ UNCHANGED raised
       ELSE /\ raised' = "write_output"
            /\ pc' = "raised"
            /\ UNCHANGED output_file
    /\ UNCHANGED <<callVars, env, exit_code, report_file, entry, master_content,
                   dir_files, master_structure, subplans, k, matches, mergeVars, report>>

MatchedTitles(ms) == {ms[p].section_title : p \in 1..Len(ms)}

\* [m['subplan'] for m in matches]
MatchedNames(ms) == {ms[p].subplan : p \in 1..Len(ms)}

\* the report merge_plans returns
BuildReport ==
    /\ pc = "report"
    /\ LET Unmatched(sp) == sp.name \notin MatchedNames(matches)
       IN  report' = << [ master_file |-> "master_file",
                          subplans_count |-> Len(subplans),
                          matches_found |-> Len(matches),
                          output_file |-> "output_file",
                          matching_details |-> matches,
                          unmatched_subplans |-> SelectSeq(subplans, Unmatched) ] >>
    /\ pc' = IF entry = "main" THEN "returned" ELSE "done"
    /\ UNCHANGED <<callVars, mainVars, entry, master_content, dir_files,
                   master_structure, subplans, k, matches, mergeVars, output_file>>

Next ==
    \/ AnalyzeMaster
    \/ LoadDir
    \/ MatchSubplan
    \/ MatchDone
    \/ GenerateBegin
    \/ MergeLine
    \/ GenerateEnd
    \/ WriteOutput
    \/ BuildReport

Spec == Init /\ [][Next]_vars

\* -------------------------------------------------------------------- main

\* the master files of the runs of main
MainMasters == { <<>>, <<"#", " ", "a", "b">>, ScenarioMaster }

\* what a run of main can meet: the master file is there, missing or not UTF-8;
\* the subplans directory is there or missing; some of its files are not UTF-8;
\* the output path and the --report path can be written or not
Envs(files) ==
    { [ report |-> r[1], master |-> m, dir |-> d, undecodable |-> u,
        output |-> o, report_path |-> r[2] ] :
        r \in { <<FALSE, "ok">>, <<TRUE, "ok">>, <<TRUE, "unwritable">> },
        m \in {"ok", "missing", "undecodable"},
        d \in IF files = <<>> THEN {"ok", "missing"} ELSE {"ok"},
        u \in SUBSET (1..Len(files)),
        o \in {"ok", "unwritable"} }

\* a run of main(master_file, subplans_dir, output_file [, --report path])
InitMain ==
    /\ entry = "main"
    /\ pc = "read_master"
    /\ dir_files \in Dirs
    /\ env \in Envs(dir_files)
    /\ master_content \in IF env.master = "ok" THEN MainMasters ELSE { <<>> }
    /\ Idle
    /\ MergeIdle
    /\ NoMain
    /\ NoCall

ReadMasterOutputOpenedFirst ==
    /\ pc = "read_master"
    /\ output_file' = << <<>> >>
    /\ IF env.master = "ok"
       THEN pc' = "analyze" /\ UNCHANGED raised
       ELSE raised' = "read_master" /\ pc' = "raised"
    /\ UNCHANGED <<callVars, env, exit_code, report_file, entry, master_content,
                   dir_files, master_structure, subplans, k, matches, mergeVars, report>>

\* with open(master_file, 'r', encoding='utf-8') as f: master_content = f.read()
ReadMaster ==
    /\ pc = "read_master"
    /\ IF env.master = "ok"
       THEN pc' = "analyze" /\ UNCHANGED raised
       ELSE raised' = "read_master" /\ pc' = "raised"
    /\ UNCHANGED <<callVars, env, exit_code, report_file, entry, master_content,
                   dir_files, master_structure, subplans, k, matches, mergeVars,
                   output_file, report>>

\* main after merge_plans has returned: the summary is printed, the report is
\* dumped to the --report file if one is given, and main returns 0
MainReport ==
    /\ entry = "main"
    /\ pc = "returned"
    /\ IF env.report /\ env.report_path # "ok"
       THEN /\ raised' = "write_report"
            /\ pc' = "raised"
            /\ UNCHANGED <<report_file, exit_code>>
       ELSE /\ report_file' = IF env.report THEN report ELSE <<>>
            /\ exit_code' = <<0>>
            /\ pc' = "exit"
            /\ UNCHANGED raised
    /\ UNCHANGED <<callVars, env, entry, master_content, dir_files, master_structure,
                   subplans, k, matches, mergeVars, output_file, report>>

\* except Exception: the error is printed and main returns 1
MainExcept ==
    /\ entry = "main"
    /\ pc = "raised"
    /\ exit_code' = <<1>>
    /\ pc' = "exit"
    /\ UNCHANGED <<callVars, env, raised, report_file, entry, master_content, dir_files,
                   master_structure, subplans, k, matches, mergeVars, output_file, report>>

NextMain ==
    \/ ReadMaster
    \/ AnalyzeMaster
    \/ LoadDir
    \/ MatchSubplan
    \/ MatchDone
    \/ GenerateBegin
    \/ MergeLine
    \/ GenerateEnd
    \/ WriteOutput
    \/ BuildReport
    \/ MainReport
    \/ MainExcept

MainSpec == InitMain /\ [][NextMain]_vars

\* ---------------------------------------------- calls on one PlanMerger instance

\* how many calls of _generate_merged_document one instance gets
MaxCalls == 2

\* "# ab\nx"
ShortMaster == <<"#", " ", "a", "b", NL, "x">>

RepeatMasters == { <<"x">>, ShortMaster, ScenarioMaster }

\* the arguments of one call of _generate_merged_document
\* one subplan whose content has a heading line followed by a text line
HeadedSubplans ==
    LoadSubplans(<< [stem |-> StemOf(1),
                     content |-> <<"#", " ", "a", "b", NL, "x", "1">>] >>)

RepeatSubplans == GivenSubplans \cup {HeadedSubplans}

RepeatInputs ==
    UNION { { [master_content |-> m, subplans |-> sps, matches |-> ms] :
                sps \in RepeatSubplans,
                ms \in UNION {GivenMatches(g, AnalyzeDocumentStructure(m)) :
                                g \in GivenSubplans} } :
            m \in RepeatMasters }

\* the matches name subplans of the call's subplan list
WellFormedCall(c) ==
    \A p \in 1..Len(c.matches) :
        \E q \in 1..Len(c.subplans) : c.subplans[q].name = c.matches[p].subplan

\* the first call of _generate_merged_document on a fresh instance
InitRepeat ==
    /\ entry = "generate"
    /\ pc = "generate"
    /\ \E c \in {d \in RepeatInputs : WellFormedCall(d)} :
          /\ master_content = c.master_content
          /\ master_structure = AnalyzeDocumentStructure(c.master_content)
          /\ subplans = c.subplans
          /\ matches = c.matches
    /\ dir_files = <<>>
    /\ k = 1
    /\ MergeIdle
    /\ env = NoFaults
    /\ NoMain
    /\ NoCall

\* what a finished call of _generate_merged_document was given and what it did
CallRecord ==
    [ master_content |-> master_content,
      master_structure |-> master_structure,
      subplans |-> subplans,
      matches |-> matches,
      merged |-> merged_content,
      claimed |-> processed_indices ]

\* the call has returned and the same instance is called again, with arguments of
\* the caller's choice; ret records the call: its arguments, the text it returned
\* and the sections it had claimed
NextCall ==
    /\ entry = "generate"
    /\ pc = "done"
    /\ Len(ret) + 1 < MaxCalls
    /\ ret' = Append(ret, CallRecord)
    /\ \E c \in {d \in RepeatInputs : WellFormedCall(d)} :
          /\ master_content' = c.master_content
          /\ master_structure' = AnalyzeDocumentStructure(c.master_content)
          /\ subplans' = c.subplans
          /\ matches' = c.matches
    /\ pc' = "generate"
    /\ UNCHANGED <<args, mainVars, entry, dir_files, k, mergeVars, output_file, report>>

\* the merged text is taken as the master of another merge:
\* master_structure = self._analyze_document_structure(merged text)
ReparseOutput ==
    /\ entry = "generate"
    /\ pc = "done"
    /\ ret' = Append(ret, CallRecord)
    /\ master_content' = merged_content
    /\ master_structure' = AnalyzeDocumentStructure(merged_content)
    /\ pc' = "reparsed"
    /\ UNCHANGED <<args, mainVars, entry, dir_files, subplans, k, matches, mergeVars,
                   output_file, report>>

NextRepeat ==
    \/ GenerateBegin
    \/ MergeLine
    \/ GenerateEnd
    \/ NextCall
    \/ ReparseOutput

Repeat == InitRepeat /\ [][NextRepeat]_vars

\* -------------------------------------------------------------- direct calls

\* how often _find_best_section_match is run on one input
Runs == 2

MaxParseLines == 5
MaxWords == 4
MaxCallLines == 3

\* "ab cd xp on te a1 b2 c3 d4 e5 p1 t2 t2": twelve words, the last one twice
LongText ==
    JoinWith(<<" ">>,
        << <<"a", "b">>, <<"c", "d">>, <<"x", "p">>, <<"o", "n">>, <<"t", "e">>,
           <<"a", "1">>, <<"b", "2">>, <<"c", "3">>, <<"d", "4">>, <<"e", "5">>,
           <<"p", "1">>, <<"t", "2">>, <<"t", "2">> >>)

\* a word, the same word in capitals, a second word, a one-letter word, a stop word
WordPool ==
    { <<"a", "b">>, <<"A", "B">>, <<"c", "d">>, <<"x">>, <<"U89C4", "U5212">> }

\* the texts _extract_keywords is called with
KeywordTexts ==
    {JoinWith(<<" ">>, ws) : ws \in UNION {[1..n -> WordPool] : n \in 0..MaxWords}}
    \cup {LongText}

ParseLinePool ==
    { <<"#", " ", "a", "b">>,
      <<"#", "#", " ", "c", "d">>,
      <<"x">>,
      <<" ", "x", " ">>,
      <<>> }

\* the texts _analyze_document_structure is called with
ParseTexts == {Join(ls) : ls \in UNION {[1..n -> ParseLinePool] : n \in 0..MaxParseLines}}

CallLinePool ==
    { <<"#", " ", "a", "b">>,
      <<"#", " ", "a", "b", " ", "c", "d">>,
      <<"#", "#", " ", "c", "d", " ", "x", "p">>,
      <<"#", "#", " ", "B">>,
      <<"c", "d">>,
      <<>> }

\* "# ab cd xp on"
FourWordHeading ==
    <<"#", " ", "a", "b", " ", "c", "d", " ", "x", "p", " ", "o", "n">>

\* the master structures the matcher's methods are called with
CallStructures ==
    {AnalyzeDocumentStructure(Join(ls)) :
        ls \in UNION {[1..n -> CallLinePool] : n \in 0..MaxCallLines}}
    \cup {AnalyzeDocumentStructure(FourWordHeading)}

CallContents ==
    { <<>>,
      <<"t">>,
      <<"a", "b">>,
      <<"a", "b", " ", "c", "d">>,
      <<"c", "d", " ", "a", "b", " ", "x", "p">>,
      <<"a", "b", " ", "c", "d", " ", "x", "p", " ", "o", "n">> }

\* the subplans the matcher's methods are called with, as _load_subplans builds them
CallSubplans ==
    {LoadSubplans(<< [stem |-> StemOf(1), content |-> c] >>)[1] : c \in CallContents}

CallSections == UNION {Range(st) : st \in CallStructures}

CallIdle ==
    /\ pc = "call"
    /\ ret = <<>>
    /\ master_content = <<>>
    /\ dir_files = <<>>
    /\ Idle
    /\ MergeIdle
    /\ env = NoFaults
    /\ NoMain

InitExtractKeywords ==
    /\ entry = "_extract_keywords"
    /\ args \in {[text |-> t] : t \in KeywordTexts}
    /\ CallIdle

InitAnalyzeDocumentStructure ==
    /\ entry = "_analyze_document_structure"
    /\ args \in {[content |-> t] : t \in ParseTexts}
    /\ CallIdle

InitCalculateSimilarity ==
    /\ entry = "_calculate_similarity"
    /\ args \in {[subplan |-> sp, section |-> sc] : sp \in CallSubplans, sc \in CallSections}
    /\ CallIdle

InitFindBestSectionMatch ==
    /\ entry = "_find_best_section_match"
    /\ args \in {[subplan |-> sp, master_structure |-> st] :
                    sp \in CallSubplans, st \in CallStructures}
    /\ CallIdle

\* a text of n characters, "abab..."
LongContent(n) == [p \in 1..n |-> IF p % 2 = 1 THEN "a" ELSE "b"]

\* contents shorter than, as long as and longer than the cap of the excerpts
ExcerptContents ==
    {LongContent(n) : n \in {0, TextCap - 3, TextCap - 1, TextCap, TextCap + 1, TextCap + 3}}

ExcerptTitles == { <<"B">>, <<"a", "b">>, <<"a", "b", " ", "c", "d">> }

\* the two excerpts _calculate_similarity hands to SequenceMatcher, for texts
\* around the cap
InitTextExcerpts ==
    /\ entry = "text_excerpts"
    /\ args \in {[subplan |-> [content |-> c], section |-> [title |-> t, content |-> d]] :
                    c \in ExcerptContents, t \in ExcerptTitles, d \in ExcerptContents}
    /\ CallIdle

InitCalls ==
    \/ InitExtractKeywords
    \/ InitAnalyzeDocumentStructure
    \/ InitCalculateSimilarity
    \/ InitFindBestSectionMatch
    \/ InitTextExcerpts

idleVars == <<entry, master_content, dir_files, master_structure, subplans, k, matches,
              mergeVars, output_file, report, mainVars>>

\* return self._extract_keywords(text)
CallExtractKeywords ==
    /\ entry = "_extract_keywords"
    /\ pc = "call"
    /\ ret' = <<ExtractKeywords(args.text)>>
    /\ pc' = "return"
    /\ UNCHANGED <<args, idleVars>>

\* return self._analyze_document_structure(content)
CallAnalyzeDocumentStructure ==
    /\ entry = "_analyze_document_structure"
    /\ pc = "call"
    /\ ret' = <<AnalyzeDocumentStructure(args.content)>>
    /\ pc' = "return"
    /\ UNCHANGED <<args, idleVars>>

\* _calculate_similarity(subplan, section): its two parts and the value it returns
CallCalculateSimilarity ==
    /\ entry = "_calculate_similarity"
    /\ pc = "call"
    /\ ret' = << [ keyword_similarity |->
                       KeywordSimilarity(Range(args.subplan.keywords),
                                         Range(args.section.keywords)),
                   text_similarity |-> TextSimilarity(args.subplan, args.section),
                   total_similarity |-> CalculateSimilarity(args.subplan, args.section) ] >>
    /\ pc' = "return"
    /\ UNCHANGED <<args, idleVars>>

\* the value of _find_best_section_match: None, or the best section with the reason
\* built for one order of the common keywords
BestMatches(subplan, structure) ==
    LET best == FindBestSectionMatch(subplan, structure)
    IN  IF best = None THEN {None}
        ELSE { [ section_index |-> best.section_index,
                 section_title |-> best.section_title,
                 similarity |-> best.similarity,
                 reason |-> GenerateMatchReason(order, best.similarity) ] :
               order \in Orderings(CommonKeywords(subplan,
                                       structure[best.section_index + 1])) }

\* one run of _find_best_section_match(subplan, master_structure); the method is
\* run again on the same arguments until it has run Runs times
CallFindBestSectionMatch ==
    /\ entry = "_find_best_section_match"
    /\ pc = "call"
    /\ Len(ret) < Runs
    /\ \E best_match \in BestMatches(args.subplan, args.master_structure) :
          ret' = Append(ret, best_match)
    /\ pc' = IF Len(ret) + 1 = Runs THEN "return" ELSE "call"
    /\ UNCHANGED <<args, idleVars>>

\* the arguments of SequenceMatcher(None, a, b) in _calculate_similarity
CallTextExcerpts ==
    /\ entry = "text_excerpts"
    /\ pc = "call"
    /\ ret' = << [a |-> SubplanText(args.subplan), b |-> SectionText(args.section)] >>
    /\ pc' = "return"
    /\ UNCHANGED <<args, idleVars>>

NextCalls ==
    \/ CallExtractKeywords
    \/ CallAnalyzeDocumentStructure
    \/ CallCalculateSimilarity
    \/ CallFindBestSectionMatch
    \/ CallTextExcerpts

Calls == InitCalls /\ [][NextCalls]_vars

\* --------------------------------------------- TXTToMarkdownConverter: lines

Max(a, b) == IF a >= b THEN a ELSE b

\* w in s
Contains(s, w) ==
    \E p \in 1..(Len(s) - Len(w) + 1) : SubSeq(s, p, p + Len(w) - 1) = w

\* s.endswith(suffix)
EndsWith(s, suffix) ==
    Len(s) >= Len(suffix) /\ SubSeq(s, Len(s) - Len(suffix) + 1, Len(s)) = suffix

\* \d of a regular expression
IsDigit(c) == c \in {"0", "1", "2", "3", "4", "5", "6", "7", "8", "9"}

RECURSIVE DigitRun(_, _)
\* number of digits line starts with, counted from position p
DigitRun(line, p) ==
    IF p <= Len(line) /\ IsDigit(line[p]) THEN DigitRun(line, p + 1) ELSE p - 1

\* the markers of _is_in_code_block: three backticks (U+0060), '~~~' and '###'
FenceMarkers == { <<"U0060", "U0060", "U0060">>, <<"~", "~", "~">>, <<"#", "#", "#">> }

\* line.startswith(markers)
IsFenceStart(line) == \E f \in FenceMarkers : StartsWith(line, f)

\* ^[-*+]\s+ at the start of s
IsBullet(s) == Len(s) >= 2 /\ s[1] \in {"-", "*", "+"} /\ IsSpace(s[2])

\* the patterns of _is_already_formatted, each tried with re.match
IsAlreadyFormatted(line) ==
    LET n == HashRun(line, 1)
        t == LStrip(line)
        d == DigitRun(t, 1)
    IN  \/ n >= 1 /\ n <= 6 /\ Len(line) >= n + 1 /\ IsSpace(line[n + 1])
        \/ IsBullet(t)
        \/ d >= 1 /\ Len(t) >= d + 2 /\ t[d + 1] = "." /\ IsSpace(t[d + 2])
        \/ t # <<>> /\ t[1] = ">"
        \/ t # <<>> /\ t[1] = "|"
        \/ IsFenceStart(line)

\* _is_in_code_block(index) on self.lines = ls; index is 0-based. The first
\* marker line among the LookBack lines before index decides: the line is inside
\* when it lies between that marker and the first later line that starts with
\* fence_char, or when no such later line is among the LookAhead lines.
IsInCodeBlock(ls, index) ==
    IF ~(0 <= index /\ index < Len(ls)) THEN FALSE
    ELSE IF IsFenceStart(Strip(ls[index + 1])) THEN TRUE
    ELSE LET openers == {o \in Max(0, index - LookBack)..(index - 1) :
                            IsFenceStart(Strip(ls[o + 1]))}
         IN  IF openers = {} THEN FALSE
             ELSE LET o == CHOOSE x \in openers : \A y \in openers : x <= y
                      prev_line == Strip(ls[o + 1])
                      fence_char == IF StartsWith(prev_line, <<"#", "#", "#">>)
                                    THEN <<prev_line[1]>>
                                    ELSE Take(prev_line, 3)
                      closers == {j \in (o + 1)..(Min(Len(ls), o + LookAhead) - 1) :
                                     StartsWith(Strip(ls[j + 1]), fence_char)}
                  IN  IF closers = {} THEN TRUE
                      ELSE o < index
                           /\ index < (CHOOSE x \in closers : \A y \in closers : x <= y)

\* the punctuation a title does not end with
TitleEndPunctuation ==
    { <<"U3002">>, <<"UFF0C">>, <<"UFF1B">>, <<"UFF1A">>, <<"U3001">>, <<"UFF09">>,
      <<")">>, <<"U3011">>, <<"]">>, <<".">>, <<",">>, <<";">>, <<":">> }

\* the configuration _load_config(None) returns, as far as convert_content reads
\* it: no 'tech_keywords', no 'important_words', no 'max_length', no 'min_length'
DefaultConfig ==
    [ heading_keywords |-> << <<"U6982", "U8FF0">>, <<"U4ECB", "U7ECD">>,
                              <<"U603B", "U7ED3">>, <<"U7ED3", "U8BBA">>,
                              <<"U529F", "U80FD">>, <<"U7279", "U6027">> >>,
      max_level |-> 6,
      tech_keywords |-> <<>>,
      important_words |-> <<>> ]

HasHeadingKeyword(config, line) ==
    \E q \in 1..Len(config.heading_keywords) : Contains(line, config.heading_keywords[q])

\* _is_title_line(line, index)
IsTitleLine(config, ls, line, index) ==
    IF Len(line) > TitleMaxLength THEN FALSE
    ELSE IF Len(line) < TitleMinLength THEN FALSE
    ELSE IF \E punct \in TitleEndPunctuation : EndsWith(line, punct) THEN FALSE
    ELSE IF HasHeadingKeyword(config, line) THEN TRUE
    ELSE LET prev_empty == index = 0 \/ Strip(ls[index]) = <<>>
         IN  prev_empty /\ Len(line) < StandaloneTitleLength

\* _format_as_title(line)
FormatAsTitle(config, line) ==
    LET level == IF HasHeadingKeyword(config, line) THEN 1
                 ELSE IF Len(line) < 15 THEN 2
                 ELSE IF Len(line) < 25 THEN 3
                 ELSE 4
    IN  [p \in 1..Min(level, config.max_level) |-> "#"] \o <<" ">> \o line

ListBullets == {"-", "*", "+", "U2022"}

ChineseNumerals ==
    {"U4E00", "U4E8C", "U4E09", "U56DB", "U4E94", "U516D", "U4E03", "U516B", "U4E5D",
     "U5341", "U767E", "U5343", "U4E07"}

ListDelimiters == {"U3001", ".", ")"}

\* ^[-*+U+2022]\s+ or ^\d+[\.\)]\s+
IsWellFormedItem(line) ==
    LET d == DigitRun(line, 1)
    IN  \/ Len(line) >= 2 /\ line[1] \in ListBullets /\ IsSpace(line[2])
        \/ d >= 1 /\ Len(line) >= d + 2 /\ line[d + 1] \in {".", ")"}
           /\ IsSpace(line[d + 2])

\* _is_list_line(line)
IsListLine(line) ==
    \/ IsWellFormedItem(line)
    \/ Len(line) >= 2 /\ line[1] \in ChineseNumerals /\ line[2] \in ListDelimiters
    \/ Len(line) > 1 /\ line[1] \in ListBullets /\ line[2] # " "

\* chinese_number_map, in the order of the dictionary
ChineseNumberMap ==
    << <<"U4E00", <<"1">> >>, <<"U4E8C", <<"2">> >>, <<"U4E09", <<"3">> >>,
       <<"U56DB", <<"4">> >>, <<"U4E94", <<"5">> >>, <<"U516D", <<"6">> >>,
       <<"U4E03", <<"7">> >>, <<"U516B", <<"8">> >>, <<"U4E5D", <<"9">> >>,
       <<"U5341", <<"1", "0">> >> >>

RECURSIVE CollapseDelimiters(_, _)
\* re.sub of a run of U+3001, '.' and ')' by one '.', from position p on
CollapseDelimiters(s, p) ==
    IF p > Len(s) THEN <<>>
    ELSE IF s[p] \in ListDelimiters
         THEN (IF p > 1 /\ s[p - 1] \in ListDelimiters THEN <<>> ELSE <<".">>)
              \o CollapseDelimiters(s, p + 1)
         ELSE <<s[p]>> \o CollapseDelimiters(s, p + 1)

\* _format_as_list(line)
FormatAsList(line) ==
    LET stripped == Strip(line)
        hits == {q \in 1..Len(ChineseNumberMap) :
                    StartsWith(stripped, <<ChineseNumberMap[q][1]>>)}
    IN  IF IsWellFormedItem(stripped) THEN line
        ELSE IF hits # {}
        THEN LET q == CHOOSE x \in hits : \A y \in hits : x <= y
             IN  CollapseDelimiters(ChineseNumberMap[q][2] \o Drop(stripped, 1), 1)
                 \o <<" ">>
        ELSE IF stripped # <<>> /\ stripped[1] \in ListBullets
                /\ (Len(stripped) = 1 \/ stripped[2] # " ")
        THEN <<stripped[1], " ">> \o Drop(stripped, 1)
        ELSE line

RECURSIVE SpaceRun(_, _)
\* the last position of the run of whitespace that starts at position p
SpaceRun(s, p) ==
    IF p < Len(s) /\ IsSpace(s[p + 1]) THEN SpaceRun(s, p + 1) ELSE p

RECURSIVE SplitWideFrom(_, _, _)
\* re.split(r'\s{2,}', s) from position p on, cur the part collected so far
SplitWideFrom(s, p, cur) ==
    IF p > Len(s) THEN <<cur>>
    ELSE IF IsSpace(s[p]) /\ SpaceRun(s, p) > p
         THEN <<cur>> \o SplitWideFrom(s, SpaceRun(s, p) + 1, <<>>)
         ELSE SplitWideFrom(s, p + 1, Append(cur, s[p]))

SplitWide(s) == SplitWideFrom(s, 1, <<>>)

RECURSIVE SplitTabFrom(_, _, _)
\* s.split('\t') from position p on
SplitTabFrom(s, p, cur) ==
    IF p > Len(s) THEN <<cur>>
    ELSE IF s[p] = "\t" THEN <<cur>> \o SplitTabFrom(s, p + 1, <<>>)
    ELSE SplitTabFrom(s, p + 1, Append(cur, s[p]))

\* _is_table_line(line), min_columns = 2
IsTableLine(line) ==
    \/ \E p \in 1..Len(line) : line[p] = "\t"
    \/ LET parts == SplitWide(Strip(line))
           short_parts == {q \in 1..Len(parts) : Len(Strip(parts[q])) < 20}
       IN  Len(parts) >= 2 /\ 10 * Cardinality(short_parts) >= 6 * Len(parts)

\* _format_as_table(line), separator ' | '
FormatAsTable(line) ==
    LET parts == IF \E p \in 1..Len(line) : line[p] = "\t"
                 THEN SplitTabFrom(line, 1, <<>>)
                 ELSE SplitWide(Strip(line))
        Filled(part) == Strip(part) # <<>>
        kept == SelectSeq(parts, Filled)
    IN  JoinWith(<<" ", "|", " ">>, [q \in 1..Len(kept) |-> Strip(kept[q])])

\* _is_quote_line(line)
IsQuoteLine(line) == line # <<>> /\ line[1] \in {">", "\""}

\* _format_as_quote(line)
FormatAsQuote(line) ==
    LET stripped == Strip(line)
    IN  IF StartsWith(stripped, <<">">>) THEN line
        ELSE IF StartsWith(stripped, <<"\"">>) /\ EndsWith(stripped, <<"\"">>)
        THEN <<">", " ">> \o SubSeq(stripped, 2, Len(stripped) - 1)
        ELSE <<">", " ">> \o stripped

RECURSIVE RunUntil(_, _, _)
\* the last position of the run of characters outside stop that starts at p
RunUntil(s, p, stop) ==
    IF p < Len(s) /\ s[p + 1] \notin stop THEN RunUntil(s, p + 1, stop) ELSE p

Whitespace == {" ", NL, "\t"}

\* the length of 'https://' or 'http://' when s has it at position p, else 0
SchemeAt(s, p) ==
    IF SubSeq(s, p, Min(Len(s), p + 7)) = <<"h", "t", "t", "p", "s", ":", "/", "/">>
       /\ p + 8 <= Len(s) /\ s[p + 8] \notin Whitespace \cup {")"}
    THEN 8
    ELSE IF SubSeq(s, p, Min(Len(s), p + 6)) = <<"h", "t", "t", "p", ":", "/", "/">>
            /\ p + 7 <= Len(s) /\ s[p + 7] \notin Whitespace \cup {")"}
    THEN 7
    ELSE 0

RECURSIVE LinkUrlsFrom(_, _)
\* re.sub(r'(https?://[^\s\)]+)', r'[\1](\1)', s) from position p on
LinkUrlsFrom(s, p) ==
    IF p > Len(s) THEN <<>>
    ELSE IF SchemeAt(s, p) > 0
         THEN LET e == RunUntil(s, p + SchemeAt(s, p), Whitespace \cup {")"})
                  url == SubSeq(s, p, e)
              IN  <<"[">> \o url \o <<"]", "(">> \o url \o <<")">> \o LinkUrlsFrom(s, e + 1)
         ELSE <<s[p]>> \o LinkUrlsFrom(s, p + 1)

\* s has 'www.' and one more non-space character at position p
WwwAt(s, p) ==
    /\ p + 4 <= Len(s)
    /\ SubSeq(s, p, p + 3) = <<"w", "w", "w", ".">>
    /\ s[p + 4] \notin Whitespace

RECURSIVE LinkWwwFrom(_, _)
\* re.sub(r'(^|\s)(www\.[^\s]+)', r'\1[\2](https://\2)', s) from position p on
LinkWwwFrom(s, p) ==
    IF p > Len(s) THEN <<>>
    ELSE LET lead == IF p = 1 /\ WwwAt(s, 1) THEN 0
                     ELSE IF s[p] \in Whitespace /\ WwwAt(s, p + 1) THEN 1
                     ELSE 2
         IN  IF lead = 2 THEN <<s[p]>> \o LinkWwwFrom(s, p + 1)
             ELSE LET e == RunUntil(s, p + lead + 4, Whitespace)
                      www == SubSeq(s, p + lead, e)
                  IN  SubSeq(s, p, p + lead - 1) \o <<"[">> \o www
                      \o <<"]", "(", "h", "t", "t", "p", "s", ":", "/", "/">> \o www
                      \o <<")">> \o LinkWwwFrom(s, e + 1)

\* _format_links(line), auto_format_urls on
FormatLinks(line) == LinkWwwFrom(LinkUrlsFrom(line, 1), 1)

\* the characters of the model's alphabet that \w does not match
NonWordChars ==
    Whitespace \cup
    {".", ",", ";", ":", "-", "*", "+", "#", "~", "U0060", "/", "(", ")", "[", "]",
     "|", ">", "\"", "U2022", "U3001", "U3002", "UFF0C", "UFF1B", "UFF1A", "UFF09",
     "U3011", "U1F4CB"}

IsWordChar(s, p) == p >= 1 /\ p <= Len(s) /\ s[p] \notin NonWordChars

\* \b between positions p - 1 and p of s
IsWordBoundary(s, p) == IsWordChar(s, p - 1) # IsWordChar(s, p)

RECURSIVE ReplaceWordFrom(_, _, _, _, _)
\* re.sub(r'\b' + word + r'\b', wrapped, s) from position p on; fold is
\* re.IGNORECASE
ReplaceWordFrom(s, p, word, wrapped, fold) ==
    IF p > Len(s) THEN <<>>
    ELSE LET e == p + Len(word) - 1
             there == IF e > Len(s) THEN FALSE
                      ELSE IF fold THEN LowerText(SubSeq(s, p, e)) = LowerText(word)
                      ELSE SubSeq(s, p, e) = word
         IN  IF there /\ IsWordBoundary(s, p) /\ IsWordBoundary(s, e + 1)
             THEN wrapped \o ReplaceWordFrom(s, e + 1, word, wrapped, fold)
             ELSE <<s[p]>> \o ReplaceWordFrom(s, p + 1, word, wrapped, fold)

RECURSIVE WrapWords(_, _, _, _, _, _)
\* the loop over all_keywords / all_important from its q-th word on
WrapWords(line, words, q, left, right, fold) ==
    IF q > Len(words) THEN line
    ELSE LET wrapped == left \o words[q] \o right
         IN  WrapWords(IF Contains(line, words[q]) /\ ~Contains(line, wrapped)
                       THEN ReplaceWordFrom(line, 1, words[q], wrapped, fold)
                       ELSE line,
                       words, q + 1, left, right, fold)

\* _highlight_keywords(line): the words of config 'tech_keywords' in backticks
HighlightKeywords(config, line) ==
    WrapWords(line, config.tech_keywords, 1, <<"U0060">>, <<"U0060">>, FALSE)

\* _add_emphasis(line): the words of config 'important_words' in double asterisks
AddEmphasis(config, line) ==
    WrapWords(line, config.important_words, 1, <<"*", "*">>, <<"*", "*">>, TRUE)

\* _process_line(line, index) on self.lines = ls
ProcessLine(config, ls, line, index) ==
    LET original_line == RStrip(line)
        stripped == Strip(original_line)
    IN  IF stripped = <<>> THEN <<>>
        ELSE IF IsAlreadyFormatted(stripped) THEN original_line
        ELSE IF IsInCodeBlock(ls, index) THEN original_line
        ELSE IF IsTitleLine(config, ls, stripped, index)
        THEN FormatAsTitle(config, stripped)
        ELSE IF IsListLine(stripped) THEN FormatAsList(stripped)
        ELSE IF IsTableLine(stripped) THEN FormatAsTable(stripped)
        ELSE IF IsQuoteLine(stripped) THEN FormatAsQuote(stripped)
        ELSE AddEmphasis(config, HighlightKeywords(config, FormatLinks(original_line)))

\* ------------------------------------- TXTToMarkdownConverter.convert_content

\* the text lines of the documents: "ab.", "API ab.", two ideographs
\* (U+91CD U+8981) before " ab.", a blank line, "ab" and "http://x ."
ConvertTextLines ==
    { <<"a", "b", ".">>,
      <<"A", "P", "I", " ", "a", "b", ".">>,
      <<"U91CD", "U8981", " ", "a", "b", ".">>,
      <<>>,
      <<"a", "b">>,
      <<"h", "t", "t", "p", ":", "/", "/", "x", " ", ".">> }

\* the lines inside the fenced blocks: "ab", "-x", "http://x ." and "ab  "
ConvertCodeLines ==
    { <<"a", "b">>,
      <<"-", "x">>,
      <<"h", "t", "t", "p", ":", "/", "/", "x", " ", ".">>,
      <<"a", "b", " ", " ">> }

Fences == { <<"U0060", "U0060", "U0060">>, <<"~", "~", "~">> }

MaxParts == 3

\* a document is made of up to MaxParts parts, each a text line or a fenced block
ConvertParts ==
    {<<t>> : t \in ConvertTextLines}
    \cup {<<f, c, f>> : f \in Fences, c \in ConvertCodeLines}

RECURSIVE Flatten(_)
Flatten(parts) == IF parts = <<>> THEN <<>> ELSE Head(parts) \o Flatten(Tail(parts))

ConvertContents ==
    UNION { {Join(Flatten(parts)) : parts \in [1..n -> ConvertParts]} : n \in 0..MaxParts }

\* TXTToMarkdownConverter().convert_content(content) is called
InitConvert ==
    /\ entry = "convert_content"
    /\ \E c \in ConvertContents : args = [content |-> c, config |-> DefaultConfig]
    /\ CallIdle

\* self.lines = content.split('\n'); self.formatted_lines = []; i = 0
ConvertBegin ==
    /\ entry = "convert_content"
    /\ pc = "call"
    /\ lines' = Split(args.content)
    /\ result_lines' = <<>>
    /\ i' = 0
    /\ pc' = "loop"
    /\ UNCHANGED <<entry, master_content, dir_files, master_structure, subplans, k,
                   matches, matches_by_line, processed_indices, origin, merged_content,
                   output_file, report, mainVars, callVars>>

\* one round of the while loop: the formatted line i is appended
ConvertLine ==
    /\ entry = "convert_content"
    /\ pc = "loop"
    /\ i < Len(lines)
    /\ result_lines' = Append(result_lines, ProcessLine(args.config, lines, lines[i + 1], i))
    /\ i' = i + 1
    /\ UNCHANGED <<entry, pc, master_content, dir_files, master_structure, subplans, k,
                   matches, lines, matches_by_line, processed_indices, origin,
                   merged_content, output_file, report, mainVars, callVars>>

\* return '\n'.join(self.formatted_lines)
ConvertEnd ==
    /\ entry = "convert_content"
    /\ pc = "loop"
    /\ i >= Len(lines)
    /\ ret' = <<Join(result_lines)>>
    /\ pc' = "return"
    /\ UNCHANGED <<idleVars, args>>

NextConvert ==
    \/ ConvertBegin
    \/ ConvertLine
    \/ ConvertEnd

Convert == InitConvert /\ [][NextConvert]_vars

\* ------------------------------------------------------------------ claims

MergeStates == {"merge_loop", "write", "report", "done"}

RECURSIVE KeepMaster(_, _)
\* result_lines without the elements the insertions appended
KeepMaster(rs, os) ==
    IF rs = <<>> THEN <<>>
    ELSE IF Head(os).src = "master"
         THEN <<Head(rs)>> \o KeepMaster(Tail(rs), Tail(os))
         ELSE KeepMaster(Tail(rs), Tail(os))

Labels == {p \in 1..Len(origin) : origin[p].part = "label"}

LabelsOf(idx) == {p \in Labels : origin[p].section = idx}

BlocksFor(name) ==
    {p \in 1..Len(origin) : origin[p].src = "block" /\ origin[p].subplan = name}

Targets(ms, idx) == {p \in 1..Len(ms) : ms[p].section_index = idx}

\* C1: the merged output holds every master line, unchanged and in the master's
\* order: without the inserted blocks, result_lines is the master's line sequence
\* (the lines emitted so far while the loop runs), and the merged text is its join.
C1_MasterLinesKept ==
    pc \in MergeStates =>
        /\ lines = Split(master_content)
        /\ Len(origin) = Len(result_lines)
        /\ KeepMaster(result_lines, origin) = SubSeq(lines, 1, i)
        /\ pc # "merge_loop" => i = Len(lines) /\ merged_content = Join(result_lines)

C1_Witness ==
    /\ pc = "done"
    /\ Len(lines) >= 3
    /\ \E p \in Labels : p < Len(origin) /\ origin[Len(origin)].src = "master"

\* C2: in one merge pass every section index receives at most one block, however
\* many matches target it; a section is in the claimed set exactly when its block
\* is in the output, and a claimed section receives nothing more.
C2_AtMostOneBlockPerSection ==
    pc \in MergeStates =>
        \A idx \in 0..(Len(master_structure) - 1) :
            /\ Cardinality(LabelsOf(idx)) <= 1
            /\ idx \in processed_indices <=> Cardinality(LabelsOf(idx)) = 1

C2_Witness ==
    /\ pc = "done"
    /\ \E idx \in processed_indices :
          /\ Cardinality(Targets(matches, idx)) >= 2
          /\ Cardinality(LabelsOf(idx)) = 1

\* C3: when two subplans match one section, the block inserted for the section is
\* the one of the subplan processed first, the other subplan has no block anywhere
\* in the merged text, both are in matching_details and neither is in
\* unmatched_subplans.
C3_FirstProcessedWins ==
    (entry = "merge_plans" /\ pc \in MergeStates) =>
        \A p, q \in 1..Len(matches) :
            ( /\ p < q
              /\ matches[p].section_index = matches[q].section_index
              /\ \A r \in 1..(p - 1) : matches[r].section_index # matches[p].section_index )
            => /\ \A at \in LabelsOf(matches[p].section_index) :
                     origin[at].subplan = matches[p].subplan
               /\ BlocksFor(matches[q].subplan) = {}
               /\ pc = "done" =>
                     /\ {matches[p], matches[q]} \subseteq Range(report[1].matching_details)
                     /\ \A u \in Range(report[1].unmatched_subplans) :
                           u.name \notin {matches[p].subplan, matches[q].subplan}

C3_Witness ==
    /\ entry = "merge_plans"
    /\ pc = "done"
    /\ Len(matches) >= 2
    /\ matches[1].section_index = matches[2].section_index
    /\ \E at \in LabelsOf(matches[1].section_index) :
          origin[at].subplan = matches[1].subplan

\* C4: a block is emitted directly after the master line that is the section's
\* heading (line_number, 1-based), and it is the separator, the label naming the
\* subplan, a blank line, the subplan's non-blank lines indented by two spaces,
\* and a blank line.
C4_BlockDirectlyAfterHeading ==
    pc \in MergeStates =>
        \A p \in 1..Len(origin) : origin[p].part = "separator" =>
            LET section == master_structure[origin[p].section + 1]
                subplan == SubplanByName(subplans, origin[p].subplan)
                body == IndentedLines(subplan.content)
            IN  /\ p > 1
                /\ origin[p - 1].src = "master"
                /\ origin[p - 1].line + 1 = section.line_number
                /\ Len(result_lines) >= p + 3 + Len(body)
                /\ SubSeq(result_lines, p, p + 3 + Len(body))
                     = <<Separator, LabelPrefix \o subplan.name, <<>>>> \o body \o << <<>> >>

IsScenario2 ==
    /\ entry = "generate"
    /\ master_content = ScenarioMaster
    /\ subplans = Scenario2Subplans
    /\ Len(matches) = 1
    /\ matches[1].subplan = <<"X">>
    /\ matches[1].section_index = 0

\* C5: Scenario 2. The master "# A / contentA / # B / contentB" merged with subplan
\* X ("x1\nx2") matched to "# A" gives "# A", "contentA", the separator, the label
\* of X, "  x1", "  x2", then "# B" and "contentB" (a blank line after the label
\* and one after the indented lines).
C5_Scenario2Output ==
    (IsScenario2 /\ pc = "done") =>
        /\ result_lines =
             << <<"#", " ", "A">>,
                <<"c", "o", "n", "t", "e", "n", "t", "A">>,
                Separator,
                <<"#", "#", "#", " ", "U1F4CB", " ", "X">>,
                <<>>,
                <<" ", " ", "x", "1">>,
                <<" ", " ", "x", "2">>,
                <<>>,
                <<"#", " ", "B">>,
                <<"c", "o", "n", "t", "e", "n", "t", "B">> >>
        /\ merged_content = Join(result_lines)

C5_Witness == IsScenario2 /\ pc = "done" /\ Len(result_lines) > Len(lines)

Eligible(structure) == {p \in 1..Len(structure) : structure[p].level <= MaxTargetLevel}

MinSimilarity == <<MinSimilarityNum, MinSimilarityDen>>

\* every eligible section scores below min_similarity
BelowThreshold(subplan) ==
    \A p \in Eligible(master_structure) :
        ~RatGe(CalculateSimilarity(subplan, master_structure[p]), MinSimilarity)

\* C6: a subplan whose similarity to every eligible section is below
\* min_similarity has no entry in the match list and no block in the output, and
\* it is in the report's unmatched_subplans.
C6_BelowThresholdUnmatched ==
    (entry = "merge_plans" /\ pc \notin {"analyze", "load"}) =>
        \A p \in 1..Len(subplans) : BelowThreshold(subplans[p]) =>
            /\ subplans[p].name \notin MatchedNames(matches)
            /\ BlocksFor(subplans[p].name) = {}
            /\ pc = "done" => subplans[p] \in Range(report[1].unmatched_subplans)

C6_Witness ==
    /\ entry = "merge_plans"
    /\ pc = "done"
    /\ \E p \in 1..Len(subplans) :
          /\ BelowThreshold(subplans[p])
          /\ \E s \in Eligible(master_structure) :
                RatGt(CalculateSimilarity(subplans[p], master_structure[s]), <<0, 1>>)

\* C7: the match list holds at most one match per subplan, in the order in which
\* the subplans were processed.
C7_OneMatchPerSubplanInOrder ==
    entry = "merge_plans" =>
        /\ \A p \in 1..Len(matches) : \E q \in 1..Len(subplans) :
              /\ subplans[q].name = matches[p].subplan
              /\ pc = "match" => q < k
        /\ \A p1, p2 \in 1..Len(matches) : \A q1, q2 \in 1..Len(subplans) :
              ( /\ p1 < p2
                /\ subplans[q1].name = matches[p1].subplan
                /\ subplans[q2].name = matches[p2].subplan ) => q1 < q2

C7_Witness ==
    /\ entry = "merge_plans"
    /\ pc = "done"
    /\ Len(matches) >= 2
    /\ matches[1].subplan # matches[2].subplan

\* C8: no match of the matcher targets a section of level 4, 5 or 6, and no block
\* is inserted for such a section.
C8_OnlyLevelsUpTo3 ==
    entry = "merge_plans" =>
        /\ \A p \in 1..Len(matches) :
              /\ matches[p].section_index \in 0..(Len(master_structure) - 1)
              /\ master_structure[matches[p].section_index + 1].level <= MaxTargetLevel
        /\ \A p \in 1..Len(origin) : origin[p].src = "block" =>
              master_structure[origin[p].section + 1].level <= MaxTargetLevel

\* a deeper section would have been the best match of a subplan
C8_Witness ==
    /\ entry = "merge_plans"
    /\ pc = "done"
    /\ \E p \in 1..Len(subplans) : \E s \in 1..Len(master_structure) :
          /\ master_structure[s].level > MaxTargetLevel
          /\ RatGe(CalculateSimilarity(subplans[p], master_structure[s]), MinSimilarity)
          /\ \A e \in Eligible(master_structure) :
                RatGt(CalculateSimilarity(subplans[p], master_structure[s]),
                      CalculateSimilarity(subplans[p], master_structure[e]))
    /\ matches # <<>>

\* the first line after line L that is a heading of level <= N, or the line after
\* the last one
BoundaryLine(ls, L, N) ==
    LET c == {b \in (L + 1)..Len(ls) : IsHeading(ls[b]) /\ HeadingLevel(ls[b]) <= N}
    IN  IF c = {} THEN Len(ls) + 1 ELSE CHOOSE b \in c : \A d \in c : b <= d

\* the master was parsed by merge_plans
Parsed == entry = "merge_plans" /\ pc # "analyze"

SpanOf(h) == ContentLines(master_content, h.line_number - 1, h.level)

\* the last line of the run of heading h
EndOf(h) == h.line_number + Len(SpanOf(h))

\* C9: the lines collected for a heading of level N hold no heading of level <= N:
\* they are the lines after the heading up to, and without, the first later heading
\* of level <= N, or up to the end of the document; sectionContent is their text.
C9_ContentStopsAtBoundary ==
    Parsed =>
        LET ls == Split(master_content)
        IN  \A p \in 1..Len(master_structure) :
                LET h == master_structure[p]
                    span == SpanOf(h)
                IN  /\ HeadingLevel(ls[h.line_number]) = h.level
                    /\ \A j \in 1..Len(span) :
                          ~(IsHeading(span[j]) /\ HeadingLevel(span[j]) <= h.level)
                    /\ span = SubSeq(ls, h.line_number + 1,
                                     BoundaryLine(ls, h.line_number, h.level) - 1)
                    /\ h.content = Strip(Join(span))

\* a section that holds a deeper heading and ends at a later heading
C9_Witness ==
    /\ Parsed
    /\ \E p \in 1..Len(master_structure) :
          LET h == master_structure[p]
          IN  /\ \E j \in 1..Len(SpanOf(h)) : IsHeading(SpanOf(h)[j])
              /\ EndOf(h) < Len(Split(master_content))

Covered(h) == h.line_number..EndOf(h)

\* C10 as stated: the heading lines with their content are runs of the document
\* that do not overlap and together are one contiguous run.
C10_RunsNeverOverlap ==
    Parsed =>
        LET ls == Split(master_content)
            n == Len(master_structure)
        IN  /\ \A p \in 1..n :
                  SpanOf(master_structure[p])
                    = SubSeq(ls, master_structure[p].line_number + 1, EndOf(master_structure[p]))
            /\ \A p, q \in 1..n :
                  p # q => Covered(master_structure[p]) \cap Covered(master_structure[q]) = {}
            /\ n > 0 =>
                  UNION {Covered(master_structure[p]) : p \in 1..n}
                    = master_structure[1].line_number..EndOf(master_structure[n])

\* C10 amended: each heading line with the lines collected for it is a contiguous,
\* in-order run of the document, the runs cover the document from the first heading
\* to the last line, and two runs are disjoint or nested: they overlap exactly when
\* the later heading is a deeper heading inside the earlier one's run, and then the
\* later run lies wholly inside the earlier one.
C10_RunsDisjointOrNested ==
    Parsed =>
        LET ls == Split(master_content)
            n == Len(master_structure)
        IN  /\ \A p \in 1..n :
                  LET h == master_structure[p]
                  IN  /\ ls[h.line_number] # <<>> /\ IsHeading(ls[h.line_number])
                      /\ SpanOf(h) = SubSeq(ls, h.line_number + 1, EndOf(h))
                      /\ h.content = Strip(Join(SpanOf(h)))
            /\ \A p, q \in 1..n : p < q =>
                  LET hp == master_structure[p]
                      hq == master_structure[q]
                  IN  \/ EndOf(hp) < hq.line_number
                      \/ /\ hq.line_number <= EndOf(hp)
                         /\ EndOf(hq) <= EndOf(hp)
                         /\ hq.level > hp.level
            /\ n > 0 =>
                  UNION {Covered(master_structure[p]) : p \in 1..n}
                    = master_structure[1].line_number..Len(ls)

\* a nested pair of sections and a disjoint pair in one document
C10_Witness ==
    /\ Parsed
    /\ \E p, q \in 1..Len(master_structure) :
          /\ p < q
          /\ master_structure[q].line_number <= EndOf(master_structure[p])
    /\ \E p, q \in 1..Len(master_structure) :
          /\ p < q
          /\ EndOf(master_structure[p]) < master_structure[q].line_number

RatEq(x, y) == x[1] * y[2] = y[1] * x[2]

\* a rational of [0,1]
InUnit(x) == x[2] > 0 /\ x[1] >= 0 /\ x[1] <= x[2]

\* _calculate_similarity was called and has returned
Scored == entry = "_calculate_similarity" /\ pc = "return"

\* C11: the keyword similarity |A n B| / |A u B| of _calculate_similarity is
\* symmetric in its two keyword sets (the call with the sets exchanged gives the
\* same value), it is 1 when the sets are equal and not empty, and 0 when one of
\* them is empty.
C11_KeywordSimilaritySymmetric ==
    Scored =>
        LET A == Range(args.subplan.keywords)
            B == Range(args.section.keywords)
            keyword_similarity == ret[1].keyword_similarity
        IN  /\ RatEq(keyword_similarity, KeywordSimilarity(B, A))
            /\ (A # {} /\ B # {}) =>
                  RatEq(keyword_similarity, <<Cardinality(A \cap B), Cardinality(A \cup B)>>)
            /\ (A = B /\ A # {}) => RatEq(keyword_similarity, <<1, 1>>)
            /\ (A = {} \/ B = {}) => RatEq(keyword_similarity, <<0, 1>>)

\* sets of different sizes that share a keyword
C11_Witness ==
    /\ Scored
    /\ LET A == Range(args.subplan.keywords)
           B == Range(args.section.keywords)
       IN  /\ A \cap B # {}
           /\ Cardinality(A) > Cardinality(B)
           /\ RatGt(ret[1].keyword_similarity, <<0, 1>>)
           /\ RatGt(<<1, 1>>, ret[1].keyword_similarity)

KeywordsWeight == <<KeywordsWeightNum, KeywordsWeightDen>>

\* C12: the value _calculate_similarity returns is keyword_similarity * W +
\* text_similarity * (1 - W) with W = keywords_weight = 1/2; the two parts are in
\* [0,1] and so is the value; every similarity _find_best_section_match stores in
\* its result is in [0,1].
C12_SimilarityInUnitInterval ==
    /\ Scored =>
          LET kw == ret[1].keyword_similarity
              tx == ret[1].text_similarity
              total == ret[1].total_similarity
              W == KeywordsWeight
          IN  /\ InUnit(kw)
              /\ InUnit(tx)
              /\ InUnit(total)
              /\ RatEq(total, <<kw[1] * W[1] * tx[2] * W[2] + tx[1] * (W[2] - W[1]) * kw[2] * W[2],
                                kw[2] * W[2] * tx[2] * W[2]>>)
    /\ entry = "_find_best_section_match" =>
          \A p \in 1..Len(ret) : ret[p] # None => InUnit(ret[p].similarity)

\* both parts are 1, so the value is 1
C12_Witness ==
    /\ Scored
    /\ RatEq(ret[1].keyword_similarity, <<1, 1>>)
    /\ RatEq(ret[1].text_similarity, <<1, 1>>)
    /\ RatEq(ret[1].total_similarity, <<1, 1>>)

\* _find_best_section_match has run Runs times on one subplan and one structure
Matched == entry = "_find_best_section_match" /\ pc = "return"

\* C13: matching is deterministic: the runs of _find_best_section_match on one
\* subplan and one master structure return the same result in every field: section
\* index, section title, similarity and reason, the reason with the same shared
\* keywords in the same order.
C13_SameResultOnEveryRun ==
    Matched => \A p, q \in 1..Len(ret) : ret[p] = ret[q]

\* a step of the run before the output file is opened
EarlySteps == {"read_master", "load_subplans"}

C15_ExitCodes ==
    (entry = "main" /\ pc = "exit") =>
        /\ exit_code = <<0>> <=> raised = "none"
        /\ exit_code = <<1>> <=> raised # "none"
        /\ ( \/ env.master # "ok"
             \/ env.dir = "missing"
             \/ LoadRaises(dir_files, env.undecodable) ) => exit_code = <<1>>
        /\ ( /\ env.master = "ok"
             /\ env.dir = "ok"
             /\ ~LoadRaises(dir_files, env.undecodable)
             /\ env.output = "ok"
             /\ env.report_path = "ok" ) => exit_code = <<0>>

\* merge_plans has returned its report
Reported == entry = "merge_plans" /\ pc = "done"

\* the names of the loaded subplans that have no entry in the match list
NamesWithoutMatch ==
    {subplans[p].name : p \in 1..Len(subplans)} \ {matches[p].subplan : p \in 1..Len(matches)}

ReportCounts ==
    LET r == report[1]
    IN  /\ r.subplans_count = Len(subplans)
        /\ r.matches_found = Len(r.matching_details)
        /\ r.matching_details = matches
        /\ \A p \in 1..Len(r.matching_details) :
              LET m == r.matching_details[p]
              IN  /\ \E q \in 1..Len(subplans) : subplans[q].name = m.subplan
                  /\ m.section_title = master_structure[m.section_index + 1].title
                  /\ m.similarity =
                        CalculateSimilarity(SubplanByName(subplans, m.subplan),
                                            master_structure[m.section_index + 1])
                  /\ m.match_reason.bucket = Bucket(m.similarity)

\* C16 as stated: the report has the subplan count, the match count, the match
\* list in processing order, and an unmatched list that holds exactly the names of
\* the subplans without an entry in the match list.
C16_UnmatchedListHoldsNames ==
    Reported =>
        /\ ReportCounts
        /\ Len(report[1].unmatched_subplans) = Cardinality(NamesWithoutMatch)
        /\ \A p \in 1..Len(report[1].unmatched_subplans) :
              report[1].unmatched_subplans[p] \in NamesWithoutMatch

\* C16 amended: the report has the subplan count, the match count and the match
\* list in processing order; its unmatched list holds, in load order, the whole
\* subplan records (name, file path, content, structure, keywords) of exactly the
\* subplans whose name has no entry in the match list.
C16_UnmatchedListHoldsSubplans ==
    Reported =>
        LET unmatched == report[1].unmatched_subplans
        IN  /\ ReportCounts
            /\ Len(unmatched) = Cardinality(NamesWithoutMatch)
            /\ \A p \in 1..Len(unmatched) :
                  /\ unmatched[p].name \in NamesWithoutMatch
                  /\ \E q \in 1..Len(subplans) :
                        /\ unmatched[p] = subplans[q]
                        /\ unmatched[p].content = subplans[q].content
                        /\ unmatched[p].keywords = ExtractKeywords(subplans[q].content)
            /\ \A p1, p2 \in 1..Len(unmatched) : \A q1, q2 \in 1..Len(subplans) :
                  ( /\ p1 < p2
                    /\ unmatched[p1] = subplans[q1]
                    /\ unmatched[p2] = subplans[q2] ) => q1 < q2

\* one subplan is matched and another one is not
C16_Witness ==
    /\ Reported
    /\ report[1].matches_found = 1
    /\ Len(report[1].unmatched_subplans) = 1
    /\ report[1].unmatched_subplans[1].name # report[1].matching_details[1].subplan

\* the similarity of the called subplan to section p (1-based) of the called structure
ScoreOf(p) == CalculateSimilarity(args.subplan, args.master_structure[p])

\* the eligible sections that reach the largest similarity of all eligible ones
TopSections ==
    {p \in Eligible(args.master_structure) :
        \A q \in Eligible(args.master_structure) : RatGe(ScoreOf(p), ScoreOf(q))}

\* C17: _find_best_section_match goes through the eligible sections in structure
\* order and replaces the running maximum on a strictly greater similarity only:
\* the match it returns is the eligible section of the largest similarity, and of
\* several eligible sections with exactly that similarity the one with the
\* smallest section index.
C17_FirstOfTiesWins ==
    entry = "_find_best_section_match" =>
        \A r \in 1..Len(ret) : ret[r] # None =>
            /\ ret[r].section_index + 1 \in TopSections
            /\ \A p \in TopSections : ret[r].section_index + 1 <= p
            /\ ret[r].similarity = ScoreOf(ret[r].section_index + 1)
            /\ ret[r].section_title = args.master_structure[ret[r].section_index + 1].title

\* two eligible sections share the largest similarity, and they are not the first
\* sections of the structure
C17_Witness ==
    /\ Matched
    /\ ret[1] # None
    /\ Cardinality(TopSections) >= 2
    /\ ret[1].section_index >= 1
    /\ \E p \in TopSections : p > ret[1].section_index + 1

\* _analyze_document_structure was called and has returned
Analyzed == entry = "_analyze_document_structure" /\ pc = "return"

\* the section of the returned structure whose heading is on line L is followed
\* directly by another heading line
HeadingFollows(ls, h) ==
    h.line_number < Len(ls) /\ IsHeading(ls[h.line_number + 1])

\* C18 as stated: the parser returns the empty list for a text without a heading
\* line, and the content of a heading that is directly followed by another heading
\* line, of any level, is empty.
C18_ConsecutiveHeadingsEmpty ==
    Analyzed =>
        LET ls == Split(args.content)
        IN  /\ (\A p \in 1..Len(ls) : ~IsHeading(ls[p])) => ret[1] = <<>>
            /\ \A p \in 1..Len(ret[1]) :
                  HeadingFollows(ls, ret[1][p]) => ret[1][p].content = <<>>

\* C18 amended: the parser returns the empty list for a text without a heading
\* line; the content of a heading that is directly followed by a heading line of
\* the same or a shallower level is empty; when the following heading is deeper,
\* the content is not empty and begins with that heading line.
C18_ConsecutiveHeadingsByLevel ==
    Analyzed =>
        LET ls == Split(args.content)
        IN  /\ (\A p \in 1..Len(ls) : ~IsHeading(ls[p])) => ret[1] = <<>>
            /\ Len(ret[1]) = Cardinality({p \in 1..Len(ls) : IsHeading(ls[p])})
            /\ \A p \in 1..Len(ret[1]) :
                  LET h == ret[1][p]
                  IN  HeadingFollows(ls, h) =>
                          IF HeadingLevel(ls[h.line_number + 1]) <= h.level
                          THEN h.content = <<>>
                          ELSE /\ h.content # <<>>
                               /\ StartsWith(h.content, RStrip(ls[h.line_number + 1]))

\* a heading directly followed by a deeper one, that one by a shallower one
C18_Witness ==
    /\ Analyzed
    /\ Len(ret[1]) >= 3
    /\ ret[1][2].line_number = ret[1][1].line_number + 1
    /\ ret[1][3].line_number = ret[1][2].line_number + 1
    /\ ret[1][1].content # <<>>
    /\ ret[1][2].content = <<>>

\* a line of white space only
IsBlank(line) == Strip(line) = <<>>

RECURSIVE DropBlankHead(_)
DropBlankHead(ls) ==
    IF ls # <<>> /\ IsBlank(Head(ls)) THEN DropBlankHead(Tail(ls)) ELSE ls

RECURSIVE DropBlankTail(_)
DropBlankTail(ls) ==
    IF ls # <<>> /\ IsBlank(ls[Len(ls)]) THEN DropBlankTail(SubSeq(ls, 1, Len(ls) - 1))
    ELSE ls

\* the lines collected for section h of the text the parser was called with
CalledSpan(h) == ContentLines(args.content, h.line_number - 1, h.level)

\* C19 as stated: the content of a heading is the text of the lines after it up to
\* the boundary heading or the end of the document, with trailing white space
\* removed only: blank lines inside the span, those directly after the heading line
\* included, are kept.
C19_OnlyTrailingSpaceRemoved ==
    Analyzed =>
        \A p \in 1..Len(ret[1]) :
            ret[1][p].content = RStrip(Join(CalledSpan(ret[1][p])))

\* C19 amended: the content of a heading is the text of the lines after it up to
\* the boundary heading or the end of the document, with leading and trailing
\* white space removed: the blank lines directly after the heading line and those
\* at the end of the span are dropped, the first remaining line loses its leading
\* and the last its trailing white space, and the lines in between, blank ones
\* included, are kept as they are.
C19_LeadingAndTrailingSpaceRemoved ==
    Analyzed =>
        \A p \in 1..Len(ret[1]) :
            LET kept == DropBlankTail(DropBlankHead(CalledSpan(ret[1][p])))
                n == Len(kept)
                got == Split(ret[1][p].content)
            IN  IF n = 0 THEN ret[1][p].content = <<>>
                ELSE /\ Len(got) = n
                     /\ got[1] = IF n = 1 THEN Strip(kept[1]) ELSE LStrip(kept[1])
                     /\ got[n] = IF n = 1 THEN Strip(kept[1]) ELSE RStrip(kept[n])
                     /\ \A j \in 2..(n - 1) : got[j] = kept[j]

\* a blank line directly after the heading and a blank line between two lines
C19_Witness ==
    /\ Analyzed
    /\ \E p \in 1..Len(ret[1]) :
          LET span == CalledSpan(ret[1][p])
              got == Split(ret[1][p].content)
          IN  /\ Len(span) = 4
              /\ IsBlank(span[1])
              /\ Len(got) = 3
              /\ got[2] = <<>>
              /\ got[3] # span[4]

\* _extract_keywords was called and has returned
Extracted == entry = "_extract_keywords" /\ pc = "return"

\* the token stream of the text _extract_keywords was called with
TokenStream == Tokenize(LowerText(args.text))

\* how often a token is in the token stream
Count(word) == Cardinality({p \in 1..Len(TokenStream) : TokenStream[p] = word})

\* the position at which a token of the stream is first met
FirstAt(word) ==
    CHOOSE p \in 1..Len(TokenStream) :
        TokenStream[p] = word /\ \A q \in 1..(p - 1) : TokenStream[q] # word

\* rank a before b: more frequent, or as frequent and met first
Ahead(a, b) ==
    \/ Count(a) > Count(b)
    \/ Count(a) = Count(b) /\ FirstAt(a) < FirstAt(b)

\* C20: _extract_keywords returns at most 10 tokens of the token stream, all
\* distinct, none of length <= 1 and none a stop word, ordered by decreasing
\* frequency in the token stream, tokens of the same frequency in the order of
\* their first occurrence; a token that is left out ranks behind all of them.
C20_TopTenByFrequency ==
    Extracted =>
        LET keywords == ret[1]
        IN  /\ Len(keywords) <= KeywordLimit
            /\ \A p, q \in 1..Len(keywords) : p # q => keywords[p] # keywords[q]
            /\ \A p \in 1..Len(keywords) :
                  /\ keywords[p] \in Range(TokenStream)
                  /\ Len(keywords[p]) > 1
                  /\ keywords[p] \notin StopWords
            /\ \A p, q \in 1..Len(keywords) : p < q => Ahead(keywords[p], keywords[q])
            /\ \A w \in Range(TokenStream) \ Range(keywords) :
                  (Len(w) > 1 /\ w \notin StopWords /\ Strip(w) # <<>>) =>
                      /\ Len(keywords) = KeywordLimit
                      /\ \A p \in 1..Len(keywords) : Ahead(keywords[p], w)

\* more than ten different keywords, one more frequent than the others, which are
\* returned in the order they were met; short tokens and a stop word in the text
C20_Witness ==
    /\ Extracted
    /\ Len(ret[1]) = KeywordLimit
    /\ \E w \in Range(TokenStream) \ Range(ret[1]) : Len(w) > 1 /\ w \notin StopWords
    /\ Count(ret[1][1]) > Count(ret[1][2])
    /\ FirstAt(ret[1][1]) > FirstAt(ret[1][2])
    /\ Count(ret[1][2]) = Count(ret[1][3])

\* the two excerpts of a call of _calculate_similarity are built
Excerpted == entry = "text_excerpts" /\ pc = "return"

\* C21 as stated: both excerpts compared by the character-sequence similarity are
\* at most 500 characters long: the subplan excerpt is the first 500 characters of
\* the subplan content, the section excerpt the first 500 characters of section
\* title + ' ' + section content.
C21_BothExcerptsCapped ==
    Excerpted =>
        /\ Len(ret[1].a) <= TextCap
        /\ ret[1].a = Take(args.subplan.content, TextCap)
        /\ Len(ret[1].b) <= TextCap
        /\ ret[1].b = Take(args.section.title \o <<" ">> \o args.section.content, TextCap)

\* C21 amended: the subplan excerpt is the first 500 characters of the subplan
\* content; the section excerpt is the whole section title, a space and the first
\* 500 characters of the section content, so its length is at most the title's
\* length + 501.
C21_ContentsCapped ==
    Excerpted =>
        LET title == args.section.title
            content == args.section.content
        IN  /\ Len(ret[1].a) = Min(Len(args.subplan.content), TextCap)
            /\ \A p \in 1..Len(ret[1].a) : ret[1].a[p] = args.subplan.content[p]
            /\ Len(ret[1].b) = Len(title) + 1 + Min(Len(content), TextCap)
            /\ \A p \in 1..Len(title) : ret[1].b[p] = title[p]
            /\ ret[1].b[Len(title) + 1] = " "
            /\ \A p \in 1..Min(Len(content), TextCap) :
                  ret[1].b[Len(title) + 1 + p] = content[p]

\* both contents are longer than the cap, the section excerpt is longer than 500
C21_Witness ==
    /\ Excerpted
    /\ Len(args.subplan.content) > TextCap
    /\ Len(args.section.content) > TextCap
    /\ Len(ret[1].a) = TextCap
    /\ Len(ret[1].b) > TextCap

RECURSIVE FreshLines(_, _, _, _, _, _)
\* the lines a call on a fresh instance emits from (0-based) master line idx on,
\* claimed being the sections that got their block on the lines before
FreshLines(ls, idx, mbl, structure, sps, claimed) ==
    IF idx >= Len(ls) THEN <<>>
    ELSE LET due == {p \in 1..Len(mbl) :
                       /\ structure[mbl[p].section_index + 1].line_number = idx
                       /\ mbl[p].section_index \notin claimed}
             first == IF due = {} THEN <<>>
                      ELSE <<mbl[CHOOSE p \in due : \A q \in due : p <= q]>>
         IN  <<ls[idx + 1]>>
             \o (IF first = <<>> THEN <<>>
                 ELSE BlockLines(SubplanByName(sps, first[1].subplan)))
             \o FreshLines(ls, idx + 1, mbl, structure, sps,
                           claimed \cup {first[p].section_index : p \in 1..Len(first)})

\* the merged text of the same call on a fresh instance
FreshMerge(content, structure, ms, sps) ==
    Join(FreshLines(Split(content), 0, SortByLineDesc(ms, structure), structure, sps, {}))

\* C22: the set of claimed sections is local to one call of
\* _generate_merged_document: whatever calls the instance served before, a call
\* returns the merged text the same call returns on a fresh instance; sections
\* claimed in an earlier call do not suppress an insertion.
C22_ClaimedSetIsLocal ==
    (entry = "generate" /\ pc = "done") =>
        merged_content = FreshMerge(master_content, master_structure, matches, subplans)

\* the earlier call claimed section 0, and the later call inserts for section 0
C22_Witness ==
    /\ entry = "generate"
    /\ pc = "done"
    /\ Len(ret) >= 1
    /\ 0 \in ret[Len(ret)].claimed
    /\ LabelsOf(0) # {}
    /\ merged_content # ret[Len(ret)].merged

\* every match of the list targets another section
DistinctTargets(ms) ==
    \A p, q \in 1..Len(ms) : p # q => ms[p].section_index # ms[q].section_index

\* ms is a permutation of ns
IsPermutation(ms, ns) ==
    /\ Len(ms) = Len(ns)
    /\ \E f \in [1..Len(ms) -> 1..Len(ms)] :
          /\ \A p, q \in 1..Len(ms) : p # q => f[p] # f[q]
          /\ \A p \in 1..Len(ms) : ms[p] = ns[f[p]]

\* C23: the order of the match list does not affect the merged text when every
\* match targets another section: a call with a permutation of an earlier call's
\* match list (same master, same subplans) returns the same text, and the blocks
\* are in the text in the top-to-bottom order of their sections.
C23_MatchOrderIrrelevant ==
    (entry = "generate" /\ pc = "done" /\ DistinctTargets(matches)) =>
        /\ \A r \in 1..Len(ret) :
              ( /\ ret[r].master_content = master_content
                /\ ret[r].subplans = subplans
                /\ IsPermutation(ret[r].matches, matches) )
              => ret[r].merged = merged_content
        /\ \A p, q \in Labels :
              p < q => /\ origin[p].section < origin[q].section
                       /\ origin[p].line < origin[q].line

\* the two calls have the same two matches in opposite orders, both blocks are in
\* the text
C23_Witness ==
    /\ entry = "generate"
    /\ pc = "done"
    /\ Len(ret) >= 1
    /\ Len(matches) = 2
    /\ DistinctTargets(matches)
    /\ ret[1].master_content = master_content
    /\ ret[1].subplans = subplans
    /\ ret[1].matches = <<matches[2], matches[1]>>
    /\ Cardinality(Labels) = 2

RECURSIVE LinesBefore(_)
\* the number of text lines the first p elements of result_lines join to
LinesBefore(p) ==
    IF p = 0 THEN 0 ELSE LinesBefore(p - 1) + Len(Split(result_lines[p]))

\* the line of the merged text at which element p of result_lines begins
LineOf(p) == LinesBefore(p - 1) + 1

\* the merged text was parsed again
Reparsed == entry = "generate" /\ pc = "reparsed"

\* the heading section the second parse found at a line of the merged text
ReparsedAt(line) ==
    {s \in Range(master_structure) : s.line_number = line}

\* C24: merge is not idempotent: the parse of a merged text finds the master's
\* headings and one more heading per inserted block, the block's label line, as a
\* level-3 heading (an eligible target); the indented subplan lines, subplan
\* heading lines included, and the other lines of a block are not headings.
C24_LabelsParsedAsHeadings ==
    Reparsed =>
        LET before == ret[Len(ret)].master_structure
        IN  /\ Len(master_structure) = Len(before) + Cardinality(Labels)
            /\ Labels # {} => Len(master_structure) > Len(before)
            /\ \A p \in 1..Len(result_lines) :
                  IF origin[p].part = "label"
                  THEN \E s \in ReparsedAt(LineOf(p)) :
                          /\ s.level = 3
                          /\ IsEligible(s)
                          /\ s.title = Drop(result_lines[p], 4)
                  ELSE IF origin[p].src = "master"
                  THEN ReparsedAt(LineOf(p)) # {} <=> IsHeading(result_lines[p])
                  ELSE \A l \in LineOf(p)..LinesBefore(p) : ReparsedAt(l) = {}

\* a block with an indented subplan heading line was inserted
C24_Witness ==
    /\ Reparsed
    /\ Labels # {}
    /\ Len(ret[Len(ret)].master_structure) >= 1
    /\ \E p \in 1..Len(result_lines) :
          /\ origin[p].part = "content"
          /\ IsHeading(Strip(result_lines[p]))
          /\ ~IsHeading(result_lines[p])

RECURSIVE FenceAfter(_, _)
\* the fence of the block that is open after line p of ls, <<>> when none is:
\* a line that starts with a fence opens a block, the next line that starts with
\* the same fence closes it
FenceAfter(ls, p) ==
    IF p = 0 THEN <<>>
    ELSE LET open == FenceAfter(ls, p - 1)
             line == Strip(ls[p])
         IN  IF open = <<>>
             THEN (IF \E f \in Fences : StartsWith(line, f)
                   THEN CHOOSE f \in Fences : StartsWith(line, f)
                   ELSE <<>>)
             ELSE IF StartsWith(line, open) THEN <<>> ELSE open

\* line p of ls lies between the opening line of a block and its closing fence
InsideFence(ls, p) ==
    /\ FenceAfter(ls, p - 1) # <<>>
    /\ FenceAfter(ls, p) # <<>>
    /\ \E q \in (p + 1)..Len(ls) : FenceAfter(ls, q) = <<>>

Converting == entry = "convert_content"

\* C25: convert_content emits every line inside a fenced code block unchanged, in
\* the first block of the document and in every later one.
C25_FencedLinesUnchanged ==
    Converting =>
        \A p \in 1..Len(result_lines) :
            InsideFence(lines, p) => result_lines[p] = lines[p]

\* the line reaches the link, keyword and emphasis steps of _process_line
IsOrdinaryLine(config, ls, p) ==
    LET stripped == Strip(ls[p])
    IN  /\ stripped # <<>>
        /\ ~IsAlreadyFormatted(stripped)
        /\ ~IsInCodeBlock(ls, p - 1)
        /\ ~IsTitleLine(config, ls, stripped, p - 1)
        /\ ~IsListLine(stripped)
        /\ ~IsTableLine(stripped)
        /\ ~IsQuoteLine(stripped)

\* API, HTTP, JSON, Python and the three ideographs U+6570 U+636E U+5E93
ClaimedTechTerms ==
    { <<"A", "P", "I">>, <<"H", "T", "T", "P">>, <<"J", "S", "O", "N">>,
      <<"P", "y", "t", "h", "o", "n">>, <<"U6570", "U636E", "U5E93">> }

\* the words U+91CD U+8981 and U+5FC5 U+987B
ClaimedImportantWords == { <<"U91CD", "U8981">>, <<"U5FC5", "U987B">> }

\* C26: with the default configuration, convert_content puts the technical terms
\* of an ordinary text line in backticks and the important words in double
\* asterisks.
C26_TermsHighlightedByDefault ==
    (Converting /\ args.config = DefaultConfig) =>
        \A p \in 1..Len(result_lines) :
            IsOrdinaryLine(args.config, lines, p) =>
                /\ \A term \in ClaimedTechTerms :
                      Contains(lines[p], term) =>
                          Contains(result_lines[p], <<"U0060">> \o term \o <<"U0060">>)
                /\ \A word \in ClaimedImportantWords :
                      Contains(lines[p], word) =>
                          Contains(result_lines[p], <<"*", "*">> \o word \o <<"*", "*">>)

\* the merge loop has run to its end
Merged == pc \in MergeStates \ {"merge_loop"}

\* C27: every section that a match of the list targets has exactly one block in
\* the merged text, whatever the master is, a master that ends with the matched
\* heading included.
C27_EveryTargetGetsItsBlock ==
    Merged =>
        \A idx \in 0..(Len(master_structure) - 1) :
            Targets(matches, idx) # {} => Cardinality(LabelsOf(idx)) = 1

\* C28: a block lies in the span of its section: no master heading of the
\* section's level or a shallower one stands between the section's heading and
\* the block.
C28_BlockInsideItsSection ==
    pc \in MergeStates =>
        \A p \in Labels :
            LET section == master_structure[origin[p].section + 1]
            IN  \A q \in 1..(p - 1) :
                    ( /\ origin[q].src = "master"
                      /\ origin[q].line + 1 > section.line_number )
                    => ~( /\ IsHeading(result_lines[q])
                          /\ HeadingLevel(result_lines[q]) <= section.level )

\* C29: in the report of merge_plans the matched and the unmatched subplans
\* partition the loaded subplans: every loaded subplan is named by exactly one
\* entry of matching_details or is exactly one entry of unmatched_subplans, never
\* both, the two lists hold loaded subplans only, and matches_found plus the
\* length of unmatched_subplans is subplans_count.
C29_MatchedAndUnmatchedPartition ==
    Reported =>
        LET r == report[1]
            InDetails(sp) ==
                {p \in 1..Len(r.matching_details) : r.matching_details[p].subplan = sp.name}
            InUnmatched(sp) ==
                {p \in 1..Len(r.unmatched_subplans) : r.unmatched_subplans[p].name = sp.name}
        IN  /\ r.subplans_count = Len(subplans)
            /\ \A q \in 1..Len(subplans) :
                  Cardinality(InDetails(subplans[q])) + Cardinality(InUnmatched(subplans[q])) = 1
            /\ \A p \in 1..Len(r.matching_details) :
                  \E q \in 1..Len(subplans) : subplans[q].name = r.matching_details[p].subplan
            /\ \A p \in 1..Len(r.unmatched_subplans) :
                  \E q \in 1..Len(subplans) : subplans[q] = r.unmatched_subplans[p]
            /\ r.matches_found + Len(r.unmatched_subplans) = r.subplans_count

\* two subplans were loaded, the report has one of them in each list
C29_Witness ==
    /\ Reported
    /\ report[1].subplans_count = 2
    /\ report[1].matches_found = 1
    /\ Len(report[1].unmatched_subplans) = 1
    /\ report[1].unmatched_subplans[1].name # report[1].matching_details[1].subplan

\* the matching loop has dealt with subplan q
Processed(q) ==
    /\ entry = "merge_plans"
    /\ pc \notin {"analyze", "load"}
    /\ pc = "match" => q < k

\* the similarity of subplan q to the (1-based) section s of the master
SimilarityTo(q, s) == CalculateSimilarity(subplans[q], master_structure[s])

\* the largest similarity of subplan q to an eligible section is x
IsBestOf(q, x) ==
    /\ \E s \in Eligible(master_structure) : RatEq(SimilarityTo(q, s), x)
    /\ \A s \in Eligible(master_structure) : RatGe(x, SimilarityTo(q, s))

\* C30: every match of the list has a similarity above 0 and of at least
\* min_similarity, a section index of the master structure and the title of that
\* section; a subplan is matched exactly when its best similarity to an eligible
\* section is above 0 and at least min_similarity, so a best similarity equal to
\* the threshold is matched, one of 0 is not, and without a section of level <= 3
\* (an empty structure included) every subplan is unmatched.
C30_MatchesAreWellFormed ==
    entry = "merge_plans" =>
        /\ \A p \in 1..Len(matches) :
              LET m == matches[p]
              IN  /\ RatGt(m.similarity, <<0, 1>>)
                  /\ RatGe(m.similarity, MinSimilarity)
                  /\ m.section_index \in 0..(Len(master_structure) - 1)
                  /\ m.section_title = master_structure[m.section_index + 1].title
        /\ \A q \in 1..Len(subplans) : Processed(q) =>
              LET matched == \E p \in 1..Len(matches) : matches[p].subplan = subplans[q].name
              IN  /\ IsBestOf(q, MinSimilarity) => matched
                  /\ IsBestOf(q, <<0, 1>>) => ~matched
                  /\ Eligible(master_structure) = {} => ~matched

\* a subplan whose best similarity is exactly min_similarity is in the match list
C30_Witness ==
    /\ entry = "merge_plans"
    /\ pc = "done"
    /\ \E q \in 1..Len(subplans) :
          /\ IsBestOf(q, MinSimilarity)
          /\ \E p \in 1..Len(matches) :
                /\ matches[p].subplan = subplans[q].name
                /\ RatEq(matches[p].similarity, MinSimilarity)

====
